---- MODULE Spec2Model ----
(***************************************************************************)
(* Water tank level monitor: the analysis core (src/src/analyzer.py), its  *)
(* unit converter under the configurations of src/src/config.py, and the   *)
(* daily report (src/src/daily_report.py) over the store                   *)
(* (src/src/supabase_client.py), the paginated log fetch                   *)
(* (src/src/tuya_client.py) and the collection run                         *)
(* (src/src/data_collector.py).                                            *)
(*                                                                         *)
(* Time.  event_time is milliseconds since the epoch in the program.  The  *)
(* model counts time in ticks of 3600000 / TicksPerHour milliseconds, so   *)
(* that every timestamp fits a 32-bit integer; an elapsed time in          *)
(* hours, (t2 - t1) / (1000 * 60 * 60), is the exact rational              *)
(* (t2 - t1) / TicksPerHour.                                               *)
(*                                                                         *)
(* Numbers.  Python floats are modelled as exact rationals [n, d] in       *)
(* lowest terms with d > 0, plus the one value NaN (d = 0), which          *)
(* propagates through arithmetic and compares false with everything, as    *)
(* IEEE NaN does.  Rounding error of the floating point unit is not        *)
(* modelled.                                                               *)
(*                                                                         *)
(* Values.  A reading's value is what Python's int() makes of it: "num"    *)
(* is an int or a decimal string ("75"), "bad" is anything int() rejects   *)
(* with ValueError or TypeError ("", "7.5", None).                         *)
(***************************************************************************)
EXTENDS Integers, Sequences, FiniteSets, TLC

VARIABLES
    readings,   \* the list of readings handed to the analyzer
    call,       \* the function called ("none" before the call)
    arg,        \* its arguments besides the readings
    result,     \* ret: what it returned (or that it raised);
                \* locals: its local variables at that point
    config,     \* the settings config.py read from the environment at import
    build,      \* the numpy build of the process: what its lstsq does with a
                \* zero column
    earlier,    \* an analyze_day call that returned before the current one,
                \* kept to compare with (NoCall when none is kept)
    sensor_readings,   \* the store's table of readings: a set of rows, one
                       \* per (event_time, code)
    daily_summaries,   \* the store's table of summaries: its rows, in the
                       \* order of insertion
    runs,       \* the daily-report runs: where each is, and what it holds
    device_logs,   \* the logs the device API holds: a set of log entries
    sync_log,      \* the store's table sync_log: its rows, oldest first
    collectors,    \* the data-collector runs: where each is, and what it holds
    fetch,         \* a fetch_logs call: its arguments, locals and position
    now            \* time.time(), in ticks

reportVars == <<sensor_readings, daily_summaries, runs>>
collectVars == <<device_logs, sync_log, collectors, fetch, now>>
vars == <<readings, call, arg, result, config, build, earlier, reportVars, collectVars>>

----------------------------------------------------------------------------
(* Bounds of the model *)

MaxLen == 3          \* longest input list drawn from the reading domain
MaxRuns == 2         \* daily-report runs that may be under way at once
TicksPerHour == 2    \* resolution of the clock
BaseDay == 365       \* the day the inputs lie in, in days since the epoch (1971-01-01,
                     \* early so that hours since the epoch stay small)
MaxPageSize == 2     \* largest page_size fetch_logs is called with; the size of the
                     \* collector's pages (100 in the source)

(* Program constants *)

NIGHT_START_HOUR == 0
NIGHT_END_HOUR == 6
UtcOffsetHours == -6           \* TIMEZONE America/Costa_Rica: UTC-6, no DST

\* config.py reads these with int(os.getenv(name, default)) when the module is
\* imported; DefaultConfig is what it holds when the environment sets none:
\* SENSOR_MAX_DEPTH "120", TANK_COUNT "2" * TANK_CAPACITY_LITERS "500"
DefaultConfig == [SENSOR_MAX_DEPTH |-> 120, TOTAL_CAPACITY_LITERS |-> 2 * 500]
SENSOR_MAX_DEPTH == config.SENSOR_MAX_DEPTH
TOTAL_CAPACITY_LITERS == config.TOTAL_CAPACITY_LITERS

----------------------------------------------------------------------------
(* Floats as exact rationals, with NaN *)

Abs(x) == IF x < 0 THEN -x ELSE x

RECURSIVE Gcd(_, _)
Gcd(a, b) == IF b = 0 THEN a ELSE Gcd(b, a % b)

NaN == [n |-> 0, d |-> 0]

IsNaN(x) == x.d = 0

Rat(n, d) ==
    IF d = 0 THEN NaN
    ELSE LET g == Gcd(Abs(n), Abs(d))
             s == IF d < 0 THEN -1 ELSE 1
         IN  [n |-> (s * n) \div g, d |-> (s * d) \div g]

FromInt(i) == [n |-> i, d |-> 1]

Zero == FromInt(0)
One == FromInt(1)

\* (common factors are cancelled before multiplying, to keep the numbers small)
RAdd(x, y) ==
    IF IsNaN(x) \/ IsNaN(y) THEN NaN
    ELSE LET g == Gcd(x.d, y.d)
         IN  Rat(x.n * (y.d \div g) + y.n * (x.d \div g), (x.d \div g) * y.d)
RNeg(x) == IF IsNaN(x) THEN NaN ELSE [n |-> -x.n, d |-> x.d]
RSub(x, y) == RAdd(x, RNeg(y))
RMul(x, y) ==
    IF IsNaN(x) \/ IsNaN(y) THEN NaN
    ELSE LET g1 == Gcd(Abs(x.n), y.d)
             g2 == Gcd(Abs(y.n), x.d)
         IN  Rat((x.n \div g1) * (y.n \div g2), (x.d \div g2) * (y.d \div g1))
\* x / y for y # 0 (every division of the program is guarded or by a constant)
RDiv(x, y) ==
    IF IsNaN(x) \/ IsNaN(y) THEN NaN
    ELSE RMul(x, Rat(y.d, y.n))

\* comparisons: false as soon as one side is NaN
RLt(x, y) == ~IsNaN(x) /\ ~IsNaN(y) /\ x.n * y.d < y.n * x.d
RLe(x, y) == ~IsNaN(x) /\ ~IsNaN(y) /\ x.n * y.d <= y.n * x.d
RGt(x, y) == RLt(y, x)
RGe(x, y) == RLe(y, x)

\* (faulty variant: no floor at zero)
PyMax0_NoFloor(x) == x

\* Python's max(0, x): the first argument stays unless x > 0
PyMax0(x) == IF RGt(x, Zero) THEN x ELSE Zero

\* Python's min(hi, max(lo, x))
PyMax(lo, x) == IF RGt(x, lo) THEN x ELSE lo
PyMin(hi, x) == IF RLt(x, hi) THEN x ELSE hi

RECURSIVE SumSeq(_)
SumSeq(s) == IF s = <<>> THEN Zero ELSE RAdd(s[1], SumSeq(Tail(s)))

RSq(x) == RMul(x, x)

----------------------------------------------------------------------------
(* Sequences *)

\* a sequence written as a function [i \in 1..n |-> e], as a tuple of values
Tuple(f) == f \o <<>>

Front(s) == SubSeq(s, 1, Len(s) - 1)
Last(s) == s[Len(s)]

\* list comprehension [x for x in s if Keep(x)]
RECURSIVE SelectIdx(_, _)
SelectIdx(s, keep) ==
    IF s = <<>> THEN <<>>
    ELSE SelectIdx(Front(s), keep) \o (IF Len(s) \in keep THEN <<Last(s)>> ELSE <<>>)

\* list.sort(key=...): stable, ascending.  keys[i] is the key of element i;
\* the result lists the indices in sorted order.
InsertIdx(order, keys, i) ==
    LET k == Cardinality({j \in 1..Len(order) : keys[order[j]] <= keys[i]})
    IN  SubSeq(order, 1, k) \o <<i>> \o SubSeq(order, k + 1, Len(order))

RECURSIVE SortOrder(_, _)
SortOrder(keys, n) ==
    IF n = 0 THEN <<>> ELSE InsertIdx(SortOrder(keys, n - 1), keys, n)

SortedByKey(s, keys) ==
    LET order == SortOrder(keys, Len(s))
    IN  Tuple([i \in 1..Len(s) |-> s[order[i]]])

----------------------------------------------------------------------------
(* Readings *)

LIQUID_DEPTH == "liquid_depth"

NumVal(i) == [t |-> "num", v |-> i]
BadVal == [t |-> "bad", v |-> 0]

\* int(value): ok = FALSE stands for ValueError / TypeError
PyInt(val) == [ok |-> val.t = "num", n |-> val.v]

Reading(code, t, val) == [code |-> code, event_time |-> t, value |-> val]

\* datetime.fromtimestamp(event_time / 1000, tz=UTC).astimezone(tz): the local
\* wall clock, in ticks since the epoch, and its hour of the day
LocalTime(t) == t + UtcOffsetHours * TicksPerHour
LocalHour(t) == (LocalTime(t) \div TicksPerHour) % 24

\* elapsed hours (t2 - t1) / (1000 * 60 * 60)
Hours(t1, t2) == Rat(t2 - t1, TicksPerHour)

----------------------------------------------------------------------------
(* analyze_night_period *)

None == [kind |-> "None"]
Raised(e) == [kind |-> "raise", error |-> e]

InNightWindow(t) ==
    NIGHT_START_HOUR <= LocalHour(t) /\ LocalHour(t) < NIGHT_END_HOUR

\* (faulty variant: the window closed at its end, hour <= NIGHT_END_HOUR)
IsNightReading_Closed(r) ==
    /\ r.code = LIQUID_DEPTH
    /\ r.event_time # 0
    /\ NIGHT_START_HOUR <= LocalHour(r.event_time)
    /\ LocalHour(r.event_time) <= NIGHT_END_HOUR
    /\ PyInt(r.value).ok

\* lines 39-61: does the loop append reading r to night_readings?
IsNightReading(r) ==
    /\ r.code = LIQUID_DEPTH            \* line 40
    /\ r.event_time # 0                 \* line 44: not event_time (0 or missing)
    /\ InNightWindow(r.event_time)      \* line 52
    /\ PyInt(r.value).ok                \* lines 53-61

NightEntry(r) ==
    [time |-> r.event_time, depth |-> PyInt(r.value).n,
     local_time |-> LocalTime(r.event_time)]

\* lines 38-61: night_readings, in input order
NightReadings(rs) ==
    LET kept == SelectIdx(rs, {i \in 1..Len(rs) : IsNightReading(rs[i])})
    IN  Tuple([i \in 1..Len(kept) |-> NightEntry(kept[i])])

\* (faulty variant: the list is left in input order)
SortByTime_Unsorted(ns) == ns

\* line 67: night_readings.sort(key=lambda x: x["time"])
SortByTime(ns) == SortedByKey(ns, Tuple([i \in 1..Len(ns) |-> ns[i].time]))

\* (faulty variant: compares with the reading seen last, kept or not)
RECURSIVE RemoveReversals_LastSeen(_)
RemoveReversals_LastSeen(ns) ==
    IF Len(ns) <= 1 THEN ns
    ELSE LET filtered == RemoveReversals_LastSeen(Front(ns))
             r == Last(ns)
         IN  IF r.depth >= ns[Len(ns) - 1].depth
             THEN Append(filtered, r)
             ELSE filtered

\* (faulty variant: > instead of >=, drops a reading level with the last kept)
RECURSIVE RemoveReversals_Strict(_)
RemoveReversals_Strict(ns) ==
    IF Len(ns) <= 1 THEN ns
    ELSE LET filtered == RemoveReversals_Strict(Front(ns))
             r == Last(ns)
         IN  IF r.depth > Last(filtered).depth
             THEN Append(filtered, r)
             ELSE filtered

\* lines 70-73: keep the first, then each reading not below the last kept one
RECURSIVE RemoveReversals(_)
RemoveReversals(ns) ==
    IF Len(ns) <= 1 THEN ns
    ELSE LET filtered == RemoveReversals(Front(ns))
             r == Last(ns)
         IN  IF r.depth >= Last(filtered).depth
             THEN Append(filtered, r)
             ELSE filtered

\* np.polyfit(times, depths, 1) by the normal equations.  When every x is
\* the same (all 0 here), polyfit divides the x column by its zero norm and
\* hands NaNs to lstsq: depending on the LAPACK build that raises
\* LinAlgError or yields NaN coefficients (lstsq_raises picks).
Degenerate(xs) == \A i \in 1..Len(xs) : xs[i] = xs[1]

Polyfit(xs, ys, lstsq_raises) ==
    LET n   == FromInt(Len(xs))
        Sx  == SumSeq(xs)
        Sy  == SumSeq(ys)
        Sxy == SumSeq(Tuple([i \in 1..Len(xs) |-> RMul(xs[i], ys[i])]))
        Sxx == SumSeq(Tuple([i \in 1..Len(xs) |-> RSq(xs[i])]))
        den == RSub(RMul(n, Sxx), RSq(Sx))
        slope == RDiv(RSub(RMul(n, Sxy), RMul(Sx, Sy)), den)
        icpt  == RDiv(RSub(Sy, RMul(slope, Sx)), n)
    IN  IF Degenerate(xs)
        THEN IF lstsq_raises
             THEN [ok |-> FALSE, slope |-> NaN, intercept |-> NaN]
             ELSE [ok |-> TRUE, slope |-> NaN, intercept |-> NaN]
        ELSE [ok |-> TRUE, slope |-> slope, intercept |-> icpt]

\* np.polyval(coeffs, times)
Polyval(c, xs) == Tuple([i \in 1..Len(xs) |-> RAdd(RMul(c.slope, xs[i]), c.intercept)])

\* (faulty variant: a fit through two points is given quality 0)
RSquared_TwoPointZero(c, xs, ys) ==
    LET predicted == Polyval(c, xs)
        mean   == RDiv(SumSeq(ys), FromInt(Len(ys)))
        ss_res == SumSeq(Tuple([i \in 1..Len(ys) |-> RSq(RSub(ys[i], predicted[i]))]))
        ss_tot == SumSeq(Tuple([i \in 1..Len(ys) |-> RSq(RSub(ys[i], mean))]))
    IN  IF RGt(ss_tot, Zero) /\ Len(ys) > 2 THEN RSub(One, RDiv(ss_res, ss_tot)) ELSE Zero

\* lines 89-92
RSquared(c, xs, ys) ==
    LET predicted == Polyval(c, xs)
        mean   == RDiv(SumSeq(ys), FromInt(Len(ys)))
        ss_res == SumSeq(Tuple([i \in 1..Len(ys) |-> RSq(RSub(ys[i], predicted[i]))]))
        ss_tot == SumSeq(Tuple([i \in 1..Len(ys) |-> RSq(RSub(ys[i], mean))]))
    IN  IF RGt(ss_tot, Zero) THEN RSub(One, RDiv(ss_res, ss_tot)) ELSE Zero

\* (faulty variant: one reading is taken to be enough)
TooFew_One(ns) == Len(ns) < 1

\* lines 63 and 75: len(...) < 2
TooFew(ns) == Len(ns) < 2

\* The whole function: [ret, locals] of one call.
analyze_night_period(rs, lstsq_raises) ==
    LET night_readings == NightReadings(rs)
        sorted   == SortByTime(night_readings)
        filtered == RemoveReversals(sorted)
        times  == Tuple([i \in 1..Len(filtered) |->
                      Hours(filtered[1].time, filtered[i].time)])
        depths == Tuple([i \in 1..Len(filtered) |-> FromInt(filtered[i].depth)])
        coeffs == Polyfit(times, depths, lstsq_raises)
    IN  IF TooFew(night_readings)
        THEN [ret |-> None,
              locals |-> [line |-> 64, night_readings |-> night_readings,
                          filtered |-> <<>>]]
        ELSE IF TooFew(filtered)
        THEN [ret |-> None,
              locals |-> [line |-> 76, night_readings |-> sorted,
                          filtered |-> filtered]]
        ELSE IF ~coeffs.ok
        THEN [ret |-> Raised("LinAlgError"),
              locals |-> [line |-> 85, night_readings |-> sorted,
                          filtered |-> filtered]]
        ELSE [ret |-> [kind |-> "estimate",
                       rate_per_hour |-> coeffs.slope,
                       r_squared |-> RSquared(coeffs, times, depths),
                       start_depth |-> filtered[1].depth,
                       end_depth |-> Last(filtered).depth,
                       duration_hours |-> Last(times),
                       reading_count |-> Len(filtered),
                       start_time |-> filtered[1].local_time,
                       end_time |-> Last(filtered).local_time],
              locals |-> [line |-> 94, night_readings |-> sorted,
                          filtered |-> filtered]]

----------------------------------------------------------------------------
(* estimate_daily_usage *)

\* (faulty variant: readings whose value does not parse are left out)
DepthReadings_Parsed(rs) ==
    SelectIdx(rs, {i \in 1..Len(rs) : rs[i].code = LIQUID_DEPTH /\ PyInt(rs[i].value).ok})

\* line 127-130
DepthReadings(rs) ==
    SelectIdx(rs, {i \in 1..Len(rs) : rs[i].code = LIQUID_DEPTH})

\* line 136: depth_readings.sort(key=lambda x: x.get("event_time", 0))
SortByEventTime(ds) == SortedByKey(ds, Tuple([i \in 1..Len(ds) |-> ds[i].event_time]))

\* (faulty variant: the smaller of the two endpoints)
SeqMin_Endpoints(s) == IF s[1] <= s[Len(s)] THEN s[1] ELSE s[Len(s)]

SeqMin(s) == CHOOSE x \in {s[i] : i \in 1..Len(s)} : \A i \in 1..Len(s) : x <= s[i]
SeqMax(s) == CHOOSE x \in {s[i] : i \in 1..Len(s)} : \A i \in 1..Len(s) : x >= s[i]

\* (faulty variant: < instead of <=, a zero duration passes)
NoDuration_Negative(duration_hours) == RLt(duration_hours, Zero)

\* line 154: duration_hours <= 0
NoDuration(duration_hours) == RLe(duration_hours, Zero)

estimate_daily_usage(rs, night_fill_rate) ==
    LET depth_readings == SortByEventTime(DepthReadings(rs))
        parsed == Tuple([i \in 1..Len(depth_readings) |-> PyInt(depth_readings[i].value)])
        depths == Tuple([i \in 1..Len(parsed) |-> parsed[i].n])
        start_depth == depths[1]
        end_depth   == Last(depths)
        start_time  == depth_readings[1].event_time
        end_time    == Last(depth_readings).event_time
        duration_hours == Hours(start_time, end_time)
        theoretical_intake == RMul(night_fill_rate, duration_hours)
        net_change == end_depth - start_depth
        estimated_usage == RSub(theoretical_intake, FromInt(net_change))
    IN  IF depth_readings = <<>>
        THEN [ret |-> None, locals |-> [line |-> 133, depth_readings |-> <<>>]]
        ELSE IF \E i \in 1..Len(parsed) : ~parsed[i].ok
        THEN [ret |-> None, locals |-> [line |-> 142, depth_readings |-> depth_readings]]
        ELSE IF NoDuration(duration_hours)
        THEN [ret |-> None, locals |-> [line |-> 155, depth_readings |-> depth_readings]]
        ELSE [ret |-> [kind |-> "estimate",
                       start_depth |-> start_depth,
                       end_depth |-> end_depth,
                       min_depth |-> SeqMin(depths),
                       max_depth |-> SeqMax(depths),
                       net_change |-> net_change,
                       theoretical_intake_depth |-> theoretical_intake,
                       estimated_usage_depth |-> PyMax0(estimated_usage),
                       duration_hours |-> duration_hours,
                       readings_count |-> Len(depth_readings)],
              locals |-> [line |-> 166, depth_readings |-> depth_readings]]

----------------------------------------------------------------------------
(* Unit converter *)

\* (faulty variant: no guard; Rat gives NaN for the division by zero)
LITERS_PER_DEPTH_UNIT_Unguarded == Rat(TOTAL_CAPACITY_LITERS, SENSOR_MAX_DEPTH)

\* config.py line 61
LITERS_PER_DEPTH_UNIT ==
    IF SENSOR_MAX_DEPTH > 0 THEN Rat(TOTAL_CAPACITY_LITERS, SENSOR_MAX_DEPTH) ELSE Zero

depth_to_liters(depth) == RMul(depth, LITERS_PER_DEPTH_UNIT)

\* (faulty variant: only a max depth of exactly 0 is guarded)
depth_to_percent_ZeroOnly(depth) ==
    IF SENSOR_MAX_DEPTH = 0 THEN Zero
    ELSE PyMin(FromInt(100),
               PyMax(Zero, RMul(RDiv(depth, FromInt(SENSOR_MAX_DEPTH)), FromInt(100))))

depth_to_percent(depth) ==
    IF SENSOR_MAX_DEPTH <= 0 THEN Zero
    ELSE PyMin(FromInt(100),
               PyMax(Zero, RMul(RDiv(depth, FromInt(SENSOR_MAX_DEPTH)), FromInt(100))))

----------------------------------------------------------------------------
(* analyze_day *)

RECURSIVE Pow10(_)
Pow10(k) == IF k = 0 THEN 1 ELSE 10 * Pow10(k - 1)

\* round(x, ndigits): to the nearest multiple of 10^-ndigits, ties to even
Round(x, ndigits) ==
    IF IsNaN(x) THEN NaN
    ELSE LET num == x.n * Pow10(ndigits)
             fl  == num \div x.d
             rem == num % x.d
             up  == \/ 2 * rem > x.d
                    \/ (2 * rem = x.d /\ fl % 2 = 1)
         IN  Rat(IF up THEN fl + 1 ELSE fl, Pow10(ndigits))

\* date.strftime("%Y-%m-%d"): the three numbers the string spells
Strftime(date) == <<date.year, date.month, date.day>>

\* lines 232-236
SummaryCounts(rs, date) ==
    [f \in {"report_date", "readings_count", "liquid_depth_count"} |->
        CASE f = "report_date" -> Strftime(date)
          [] f = "readings_count" -> Len(rs)
          [] f = "liquid_depth_count" -> Len(DepthReadings(rs))]

\* lines 240-246
NightFields(n) ==
    [f \in {"night_start_depth", "night_end_depth", "night_duration_hours",
            "night_fill_rate_per_hour", "night_r_squared"} |->
        CASE f = "night_start_depth" -> n.start_depth
          [] f = "night_end_depth" -> n.end_depth
          [] f = "night_duration_hours" -> Round(n.duration_hours, 2)
          [] f = "night_fill_rate_per_hour" -> Round(n.rate_per_hour, 2)
          [] f = "night_r_squared" -> Round(n.r_squared, 4)]

\* (faulty variant: the liters are rounded to whole numbers)
UsageFields_IntegerLiters(u) ==
    [f \in {"start_depth", "end_depth", "min_depth", "max_depth", "net_change_depth",
            "estimated_intake_depth", "estimated_intake_liters",
            "estimated_usage_depth", "estimated_usage_liters"} |->
        CASE f = "start_depth" -> u.start_depth
          [] f = "end_depth" -> u.end_depth
          [] f = "min_depth" -> u.min_depth
          [] f = "max_depth" -> u.max_depth
          [] f = "net_change_depth" -> u.net_change
          [] f = "estimated_intake_depth" -> Round(u.theoretical_intake_depth, 2)
          [] f = "estimated_intake_liters" ->
                 Round(depth_to_liters(u.theoretical_intake_depth), 0)
          [] f = "estimated_usage_depth" -> Round(u.estimated_usage_depth, 2)
          [] f = "estimated_usage_liters" ->
                 Round(depth_to_liters(u.estimated_usage_depth), 0)]

\* lines 250-260
UsageFields(u) ==
    [f \in {"start_depth", "end_depth", "min_depth", "max_depth", "net_change_depth",
            "estimated_intake_depth", "estimated_intake_liters",
            "estimated_usage_depth", "estimated_usage_liters"} |->
        CASE f = "start_depth" -> u.start_depth
          [] f = "end_depth" -> u.end_depth
          [] f = "min_depth" -> u.min_depth
          [] f = "max_depth" -> u.max_depth
          [] f = "net_change_depth" -> u.net_change
          [] f = "estimated_intake_depth" -> Round(u.theoretical_intake_depth, 2)
          [] f = "estimated_intake_liters" ->
                 Round(depth_to_liters(u.theoretical_intake_depth), 2)
          [] f = "estimated_usage_depth" -> Round(u.estimated_usage_depth, 2)
          [] f = "estimated_usage_liters" ->
                 Round(depth_to_liters(u.estimated_usage_depth), 2)]

Empty == [f \in {} |-> 0]

\* (faulty variant: a default rate other than 0)
FillRate_One(night_analysis) ==
    IF night_analysis.kind = "estimate" THEN night_analysis.rate_per_hour ELSE One

\* (faulty variant: without a night estimate the rate the last night
\* analysis of the process found is used, as from a module-level cache)
FillRate_Remembered(night_analysis) ==
    IF night_analysis.kind = "estimate" THEN night_analysis.rate_per_hour
    ELSE IF result.ret.kind = "estimate" /\ "rate_per_hour" \in DOMAIN result.ret
         THEN result.ret.rate_per_hour
         ELSE Zero

\* (faulty variant: the displayed, rounded rate is handed on)
FillRate_Rounded(night_analysis) ==
    IF night_analysis.kind = "estimate" THEN Round(night_analysis.rate_per_hour, 2) ELSE Zero

\* line 226: the rate handed to estimate_daily_usage
FillRate(night_analysis) ==
    IF night_analysis.kind = "estimate" THEN night_analysis.rate_per_hour ELSE Zero

\* (faulty variant: without a night estimate the usage fields are left out too)
Summary_NightGated(rs, date, night_analysis, usage_analysis) ==
    SummaryCounts(rs, date)
    @@ (IF night_analysis.kind = "estimate" THEN NightFields(night_analysis) ELSE Empty)
    @@ (IF night_analysis.kind = "estimate" /\ usage_analysis.kind = "estimate"
        THEN UsageFields(usage_analysis) ELSE Empty)

\* (faulty variant: the night fields are added under the usage estimate's test)
Summary_UsageGated(rs, date, night_analysis, usage_analysis) ==
    SummaryCounts(rs, date)
    @@ (IF night_analysis.kind = "estimate" /\ usage_analysis.kind = "estimate"
        THEN NightFields(night_analysis) ELSE Empty)
    @@ (IF usage_analysis.kind = "estimate" THEN UsageFields(usage_analysis) ELSE Empty)

\* lines 232-262: the summary, a dict from field names to values
Summary(rs, date, night_analysis, usage_analysis) ==
    SummaryCounts(rs, date)
    @@ (IF night_analysis.kind = "estimate" THEN NightFields(night_analysis) ELSE Empty)
    @@ (IF usage_analysis.kind = "estimate" THEN UsageFields(usage_analysis) ELSE Empty)

analyze_day(rs, date, lstsq_raises) ==
    LET night_analysis == analyze_night_period(rs, lstsq_raises).ret
        fill_rate == FillRate(night_analysis)
        usage_analysis == estimate_daily_usage(rs, fill_rate).ret
    IN  IF night_analysis.kind = "raise"
        THEN [ret |-> night_analysis,
              locals |-> [line |-> 223, night_analysis |-> night_analysis,
                          fill_rate |-> Zero, usage_analysis |-> None]]
        ELSE [ret |-> [kind |-> "summary",
                       fields |-> Summary(rs, date, night_analysis, usage_analysis)],
              locals |-> [line |-> 262, night_analysis |-> night_analysis,
                          fill_rate |-> fill_rate, usage_analysis |-> usage_analysis]]

----------------------------------------------------------------------------
(* The inputs the functions are called with *)

\* 00:00 local time of day BaseDay, in ticks since the epoch, and the
\* instant k ticks after h o'clock local time of that day
LocalMidnight == (BaseDay * 24 - UtcOffsetHours) * TicksPerHour
At(h, k) == LocalMidnight + h * TicksPerHour + k

Depths == {0, 1, 2}

\* two instants inside the night window and the first one after it
Times == {At(1, 0), At(2, 1), At(NIGHT_END_HOUR, 0)}

\* no timestamp (0), the window's first and last tick, midday
EdgeTimes == {0, At(NIGHT_START_HOUR, 0), At(NIGHT_END_HOUR - 1, TicksPerHour - 1), At(12, 0)}

OtherReadings ==
    {Reading("liquid_state", At(1, 0), BadVal),
     Reading("liquid_level_percent", At(12, 0), NumVal(1))}

DomainReadings ==
    {Reading(LIQUID_DEPTH, t, NumVal(d)) : t \in Times, d \in Depths}
    \cup {Reading(LIQUID_DEPTH, At(2, 1), BadVal)}

EdgeReadings ==
    {Reading(LIQUID_DEPTH, t, v) : t \in EdgeTimes, v \in {NumVal(0), NumVal(2), BadVal}}
    \cup {Reading(LIQUID_DEPTH, At(1, 0), NumVal(1))}
    \cup OtherReadings

SeqsUpTo(S, n) == UNION {[1..k -> S] : k \in 0..n}

DepthsAt(ds, h0, step) ==
    Tuple([i \in 1..Len(ds) |-> Reading(LIQUID_DEPTH, At(h0 + (i - 1) * step, 0), NumVal(ds[i]))])

\* the worked examples of the specification
ScrubExample == DepthsAt(<<10, 8, 12, 11, 15>>, 0, 1)
RegressionExample == DepthsAt(<<10, 12, 14, 16>>, 0, 1)
ZeroVarianceExample == DepthsAt(<<10, 10, 10>>, 1, 2)
UsageFloorExample == DepthsAt(<<20, 35>>, 8, 10)
UsageNormalExample == DepthsAt(<<10, 90>>, 0, 24)

Examples ==
    {ScrubExample, RegressionExample, ZeroVarianceExample, UsageFloorExample,
     UsageNormalExample}

Inputs ==
    SeqsUpTo(DomainReadings, MaxLen) \cup SeqsUpTo(EdgeReadings, MaxLen - 1) \cup Examples

\* night_fill_rate values estimate_daily_usage is called with directly
Rates == {Zero, One, FromInt(5), Rat(-1, 2), NaN}

Dates == {[year |-> 1971, month |-> 1, day |-> 1], [year |-> 1971, month |-> 1, day |-> 2]}

NoArg == [none |-> TRUE]

----------------------------------------------------------------------------
(* The state machine: a list of readings, and one call of one of the three *)
(* functions on it (the functions keep no state: a run is one call)        *)

NotCalled == [ret |-> None, locals |-> [line |-> 0]]
NoCall == [kept |-> FALSE]

\* a daily-report run that has not started (did: the I/O and the analysis
\* the run has done, in order; email: how the email part went); processes
\* without a store
Idle ==
    [pc |-> "idle", date |-> NoArg, summary |-> Empty, ret |-> None, stored |-> FALSE,
     did |-> <<>>, email |-> "none"]
NoReport ==
    /\ sensor_readings = {}
    /\ daily_summaries = <<>>
    /\ runs = [p \in 1..MaxRuns |-> Idle]

\* processes without a device and without collector runs
NotFetching == [call |-> [pc |-> "none"]]
NotCollecting == [pc |-> "idle"]
NoCollect ==
    /\ device_logs = {}
    /\ sync_log = <<>>
    /\ collectors = [p \in 1..MaxRuns |-> NotCollecting]
    /\ fetch = NotFetching
    /\ now = 0

\* what a build's lstsq may do with the night readings of rs: the builds
\* differ only when polyfit is reached with all readings at one timestamp
\* (one run of Spec is one call, so only then are both builds tried)
LstsqOutcomes(rs) ==
    LET filtered == RemoveReversals(SortByTime(NightReadings(rs)))
    IN  IF Len(filtered) >= 2 /\ \A i \in 1..Len(filtered) : filtered[i].time = filtered[1].time
        THEN BOOLEAN
        ELSE {FALSE}

Init ==
    /\ readings \in Inputs
    /\ call = "none"
    /\ arg = NoArg
    /\ result = NotCalled
    /\ config = DefaultConfig
    /\ build \in {[lstsq_raises |-> b] : b \in LstsqOutcomes(readings)}
    /\ earlier = NoCall
    /\ NoReport
    /\ NoCollect

CallAnalyzeNightPeriod ==
    /\ call = "none"
    /\ call' = "analyze_night_period"
    /\ arg' = NoArg
    /\ result' = analyze_night_period(readings, build.lstsq_raises)
    /\ UNCHANGED <<readings, config, build, earlier, reportVars, collectVars>>

CallEstimateDailyUsage ==
    /\ call = "none"
    /\ \E night_fill_rate \in Rates :
        /\ call' = "estimate_daily_usage"
        /\ arg' = [night_fill_rate |-> night_fill_rate]
        /\ result' = estimate_daily_usage(readings, night_fill_rate)
        /\ UNCHANGED <<readings, config, build, earlier, reportVars, collectVars>>

CallAnalyzeDay ==
    /\ call = "none"
    /\ \E date \in Dates :
        /\ call' = "analyze_day"
        /\ arg' = [date |-> date]
        /\ result' = analyze_day(readings, date, build.lstsq_raises)
        /\ UNCHANGED <<readings, config, build, earlier, reportVars, collectVars>>

Next ==
    \/ CallAnalyzeNightPeriod
    \/ CallEstimateDailyUsage
    \/ CallAnalyzeDay

Spec == Init /\ [][Next]_vars

----------------------------------------------------------------------------
(* Calls one after the other in one process: each call of Next, then the   *)
(* caller takes the result and goes on to another list of readings         *)

\* two night readings at one instant: the input a build's lstsq decides on
SameInstantExample ==
    <<Reading(LIQUID_DEPTH, At(1, 0), NumVal(0)), Reading(LIQUID_DEPTH, At(1, 0), NumVal(1))>>

CallInputs == {UsageFloorExample, RegressionExample, ScrubExample, SameInstantExample}

InitCalls ==
    /\ readings \in CallInputs
    /\ call = "none"
    /\ arg = NoArg
    /\ result = NotCalled
    /\ config = DefaultConfig
    /\ build \in [lstsq_raises : BOOLEAN]
    /\ earlier = NoCall
    /\ NoReport
    /\ NoCollect

\* the call returns; its result stays where the caller has it.  An
\* analyze_day call may be kept in earlier, once; after that, between tells
\* that other calls have returned since.
Return ==
    /\ call # "none"
    /\ call' = "none"
    /\ \E rs \in CallInputs : readings' = rs
    /\ \/ /\ call = "analyze_day"
          /\ ~earlier.kept
          /\ earlier' = [kept |-> TRUE, readings |-> readings, date |-> arg.date,
                         ret |-> result.ret, between |-> FALSE]
       \/ /\ earlier.kept
          /\ earlier' = [earlier EXCEPT !.between = TRUE]
       \/ /\ ~earlier.kept
          /\ UNCHANGED earlier
    /\ UNCHANGED <<arg, result, config, build, reportVars, collectVars>>

NextCalls ==
    \/ Next
    \/ Return



SpecCalls == InitCalls /\ [][NextCalls]_vars

----------------------------------------------------------------------------
\* A caller that passes the same readings again in another order.

\* liquid_depth readings at two night instants, two per instant, and one
\* whose value does not parse
OrderReadings ==
    {Reading(LIQUID_DEPTH, t, NumVal(d)) : t \in {At(1, 0), At(2, 1)}, d \in {1, 2}}
    \cup {Reading(LIQUID_DEPTH, At(2, 1), BadVal)}

InitOrder ==
    /\ readings \in SeqsUpTo(OrderReadings, MaxLen)
    /\ call = "none"
    /\ arg = NoArg
    /\ result = NotCalled
    /\ config = DefaultConfig
    /\ build \in [lstsq_raises : BOOLEAN]
    /\ earlier = NoCall
    /\ NoReport
    /\ NoCollect

Reordered(rs) ==
    {[i \in 1..Len(rs) |-> rs[p[i]]] : p \in Permutations(1..Len(rs))}

\* the first analyze_day call returns, kept in earlier, and the caller
\* reorders its list
Reorder ==
    /\ call = "analyze_day"
    /\ ~earlier.kept
    /\ call' = "none"
    /\ \E rs \in Reordered(readings) : readings' = Tuple(rs)
    /\ earlier' = [kept |-> TRUE, readings |-> readings, date |-> arg.date,
                   ret |-> result.ret, between |-> FALSE]
    /\ UNCHANGED <<arg, result, config, build, reportVars, collectVars>>

NextOrder ==
    \/ Next
    \/ Reorder

SpecOrder == InitOrder /\ [][NextOrder]_vars

----------------------------------------------------------------------------
(* The unit converter under any configuration: one call of depth_to_liters *)
(* or depth_to_percent                                                      *)

\* what the environment may set: a negative, a zero and two positive max
\* depths; no capacity and two capacities
Configs ==
    [SENSOR_MAX_DEPTH : {-10, 0, 80, 120}, TOTAL_CAPACITY_LITERS : {0, 750, 1000}]

\* the depths of the examples, the ends of the scale, fractions, NaN
DepthArgs ==
    {FromInt(60), FromInt(150), FromInt(-5), Zero, FromInt(120), FromInt(80),
     Rat(1, 3), Rat(241, 2), NaN}

InitConverter ==
    /\ readings = <<>>
    /\ call = "none"
    /\ arg = NoArg
    /\ result = NotCalled
    /\ config \in Configs
    /\ build = [lstsq_raises |-> FALSE]
    /\ earlier = NoCall
    /\ NoReport
    /\ NoCollect

CallDepthToLiters ==
    /\ call = "none"
    /\ \E depth \in DepthArgs :
        /\ call' = "depth_to_liters"
        /\ arg' = [depth |-> depth]
        /\ result' = [ret |-> depth_to_liters(depth), locals |-> [line |-> 188]]
        /\ UNCHANGED <<readings, config, build, earlier, reportVars, collectVars>>

CallDepthToPercent ==
    /\ call = "none"
    /\ \E depth \in DepthArgs :
        /\ call' = "depth_to_percent"
        /\ arg' = [depth |-> depth]
        /\ result' = [ret |-> depth_to_percent(depth),
                      locals |-> [line |-> IF SENSOR_MAX_DEPTH <= 0 THEN 201 ELSE 202]]
        /\ UNCHANGED <<readings, config, build, earlier, reportVars, collectVars>>

NextConverter ==
    \/ CallDepthToLiters
    \/ CallDepthToPercent

SpecConverter == InitConverter /\ [][NextConverter]_vars

----------------------------------------------------------------------------
(* The daily report (src/src/daily_report.py) over the store               *)
(* (src/src/supabase_client.py): up to MaxRuns runs at once, each a        *)
(* sequence of steps cut at its calls to the store and to the mail server  *)

\* datetime(date.year, date.month, date.day) in days since the epoch (the
\* model's dates lie in January 1971)
Toordinal(date) == 365 * (date.year - 1970) + date.day - 1

\* get_readings_for_date, the filter: the rows whose event_time_utc lies in
\* [start_utc, end_utc), the local day of date
RowsForDate(rows, date) ==
    LET start_utc == (Toordinal(date) * 24 - UtcOffsetHours) * TicksPerHour
        end_utc == start_utc + 24 * TicksPerHour
    IN  {r \in rows : start_utc <= r.event_time /\ r.event_time < end_utc}

\* .order("event_time"): every list of the rows with event_time ascending;
\* the database orders rows of equal event_time as it likes
RECURSIVE OrderedByEventTime(_)
OrderedByEventTime(rows) ==
    IF rows = {} THEN {<<>>}
    ELSE LET firsts == {r \in rows : \A q \in rows : r.event_time <= q.event_time}
         IN  UNION {{<<r>> \o s : s \in OrderedByEventTime(rows \ {r})} : r \in firsts}

get_readings_for_date(date) == OrderedByEventTime(RowsForDate(sensor_readings, date))

\* (faulty variant: a plain insert)
upsert_daily_summary_Insert(table, summary) == Append(table, summary)

\* .upsert(summary, on_conflict="report_date"): the row of that report_date
\* takes the summary's columns and keeps its others; without such a row
\* the summary is inserted
upsert_daily_summary(table, summary) ==
    LET hits == {i \in 1..Len(table) : table[i]["report_date"] = summary["report_date"]}
    IN  IF hits = {}
        THEN Append(table, summary)
        ELSE Tuple([i \in 1..Len(table) |->
                      IF i \in hits THEN summary @@ table[i] ELSE table[i]])

\* what run_daily_report returns
Failure(error) == [kind |-> "result", success |-> FALSE, error |-> error]
Success(email_sent, email_error) ==
    [kind |-> "result", success |-> TRUE, email_sent |-> email_sent, email_error |-> email_error]

\* the tables the store may hold: no depth readings, those of a night with
\* reversals, or one on each of two days; with or without readings of other
\* codes, one of them at the instant of a depth reading; one row per
\* (event_time, code)
StoredTables ==
    {{e[i] : i \in 1..Len(e)} \cup o :
        e \in {<<>>, ScrubExample, UsageNormalExample}, o \in {{}, OtherReadings}}

InitReport ==
    /\ readings = <<>>
    /\ call = "none"
    /\ arg = NoArg
    /\ result = NotCalled
    /\ config = DefaultConfig
    /\ build \in [lstsq_raises : BOOLEAN]
    /\ earlier = NoCall
    /\ sensor_readings \in StoredTables
    /\ daily_summaries = <<>>
    /\ runs = [p \in 1..MaxRuns |-> Idle]
    /\ NoCollect

Finish(p, ret) == runs' = [runs EXCEPT ![p].pc = "done", ![p].ret = ret]

\* python -m src.daily_report, up to the try block (lines 13-63): the
\* imports, validate_config, the report date.  src/src/email_sender.py
\* imports SMTP_HOST, SMTP_PORT, SMTP_USER and SMTP_PASSWORD from config.py,
\* which defines none of them: with the sources as they are the import
\* raises ImportError and the run ends there; a run gets further only with
\* a config module that has the four names.
RunStart(p) ==
    /\ runs[p].pc = "idle"
    /\ \/ runs' = [runs EXCEPT ![p].pc = "done", ![p].ret = Raised("ImportError")]
       \/ Finish(p, Failure("Configuration validation failed"))
       \/ \E date \in Dates : runs' = [runs EXCEPT ![p].pc = "fetch", ![p].date = date]
    /\ UNCHANGED <<readings, call, arg, result, config, build, earlier,
                   sensor_readings, daily_summaries, collectVars>>

\* (faulty variant: an empty list is analysed like any other)
NoReadings_Never(rs) == FALSE

\* line 71: if not readings
NoReadings(rs) == rs = <<>>

\* lines 65-85: the fetch (which may fail), the test for no readings, the
\* analysis
RunFetch(p) ==
    /\ runs[p].pc = "fetch"
    /\ \/ Finish(p, Failure("Unexpected error"))
       \/ \E rs \in get_readings_for_date(runs[p].date) :
            LET summary == analyze_day(rs, runs[p].date, build.lstsq_raises).ret
                fetched == Append(runs[p].did, "fetch")
                analyzed == Append(fetched, "analyze")
            IN  IF NoReadings(rs)
                THEN runs' = [runs EXCEPT ![p].pc = "done", ![p].did = fetched,
                                          ![p].ret = Failure("No readings found")]
                ELSE IF summary.kind = "raise"
                THEN runs' = [runs EXCEPT ![p].pc = "done", ![p].did = analyzed,
                                          ![p].ret = Failure("Unexpected error")]
                ELSE runs' = [runs EXCEPT ![p].pc = "upsert", ![p].did = analyzed,
                                          ![p].summary = summary.fields]
    /\ UNCHANGED <<readings, call, arg, result, config, build, earlier,
                   sensor_readings, daily_summaries, collectVars>>

\* lines 87-89: the upsert, which may fail
RunUpsert(p) ==
    /\ runs[p].pc = "upsert"
    /\ \/ /\ Finish(p, Failure("Unexpected error"))
          /\ UNCHANGED daily_summaries
       \/ /\ daily_summaries' = upsert_daily_summary(daily_summaries, runs[p].summary)
          /\ runs' = [runs EXCEPT ![p].pc = "email", ![p].stored = TRUE,
                                  ![p].did = Append(@, "upsert")]
    /\ UNCHANGED <<readings, call, arg, result, config, build, earlier, sensor_readings,
                   collectVars>>

\* how the email part of a run may go: validate_email_config reports
\* errors (line 103); building the email raises (lines 117-118);
\* send_daily_report raises EmailSendError (line 130); the email is sent
EmailOutcomes == {"configuration incomplete", "build raised", "EmailSendError", "sent"}

\* what the run has done once the email part is over
DidForEmail(outcome) ==
    CASE outcome = "configuration incomplete" -> <<"status">>
      [] outcome = "build raised" -> <<"status", "build">>
      [] outcome = "EmailSendError" -> <<"status", "build", "send">>
      [] outcome = "sent" -> <<"status", "build", "send">>

\* (faulty variant: EmailSendError is not caught at line 130 and reaches the
\* outer except)
ReturnAfterEmail_Uncaught(outcome) ==
    CASE outcome = "configuration incomplete" -> Success(FALSE, "Email configuration incomplete")
      [] outcome = "build raised" -> Failure("Unexpected error")
      [] outcome = "EmailSendError" -> Failure("Unexpected error")
      [] outcome = "sent" -> Success(TRUE, "None")

\* lines 104-113, 130-133, 139-150: what run_daily_report returns
ReturnAfterEmail(outcome) ==
    CASE outcome = "configuration incomplete" -> Success(FALSE, "Email configuration incomplete")
      [] outcome = "build raised" -> Failure("Unexpected error")
      [] outcome = "EmailSendError" -> Success(FALSE, "EmailSendError")
      [] outcome = "sent" -> Success(TRUE, "None")

\* lines 91-150: the device status (its failures are swallowed), the email
\* configuration, the building of the email (a failure of which the outer
\* except catches), the sending
RunEmail(p) ==
    /\ runs[p].pc = "email"
    /\ \E outcome \in EmailOutcomes :
          runs' = [runs EXCEPT ![p].pc = "done", ![p].email = outcome,
                               ![p].did = @ \o DidForEmail(outcome),
                               ![p].ret = ReturnAfterEmail(outcome)]
    /\ UNCHANGED <<readings, call, arg, result, config, build, earlier,
                   sensor_readings, daily_summaries, collectVars>>

\* the process ends; cron starts another one later
RunExit(p) ==
    /\ runs[p].pc = "done"
    /\ runs' = [runs EXCEPT ![p] = Idle]
    /\ UNCHANGED <<readings, call, arg, result, config, build, earlier,
                   sensor_readings, daily_summaries, collectVars>>

NextReport ==
    \E p \in 1..MaxRuns :
        \/ RunStart(p)
        \/ RunFetch(p)
        \/ RunUpsert(p)
        \/ RunEmail(p)
        \/ RunExit(p)

SpecReport == InitReport /\ [][NextReport]_vars

----------------------------------------------------------------------------
(* The reading store: SupabaseClient.insert_readings (supabase_client.py). *)
(* A log entry of the device, and a reading handed to insert_readings, is  *)
(* a record with the keys it has: event_time may be missing.  A value is   *)
(* a JSON number or a string; the store keeps str(value).                  *)

LIQUID_STATE == "liquid_state"

JsonInt(n) == [t |-> "int", v |-> n]
JsonStr(s) == [t |-> "str", v |-> s]

\* str(x) of a JSON number or string
PyStr(x) == IF x.t = "str" THEN x ELSE JsonStr(ToString(x.v))

Log(event_time, code, value, status) ==
    [event_time |-> event_time, code |-> code, value |-> value, status |-> status]

\* (faulty variant: only a missing event_time is skipped)
HasEventTime_Present(reading) == "event_time" \in DOMAIN reading

\* lines 42-44: not (not event_time): present and not 0
HasEventTime(reading) == "event_time" \in DOMAIN reading /\ reading.event_time # 0

\* lines 49-57: the record of a reading (the columns the key and the
\* claims are about)
Record(reading) ==
    [event_time |-> reading.event_time,
     code |-> reading.code,
     value |-> PyStr(reading.value),
     status |-> reading.status]

\* lines 40-57: records, in the order of the readings
Records(rs) ==
    LET kept == SelectIdx(rs, {i \in 1..Len(rs) : HasEventTime(rs[i])})
    IN  Tuple([i \in 1..Len(kept) |-> Record(kept[i])])

Key(row) == <<row.event_time, row.code>>

\* lines 63-66: .upsert(records, on_conflict="event_time,code").execute()
\* is one INSERT ... ON CONFLICT (event_time, code) DO UPDATE statement: a
\* row of the same key takes the record's columns, other records are
\* inserted.  When two records of the statement have one key, Postgres
\* rejects the statement (error 21000) and the table stays as it is; the
\* outcome in which the later record wins is kept as well.  Any statement
\* may fail (network, database).
Upsert(table, records) ==
    LET keys == {Key(records[i]) : i \in 1..Len(records)}
        lastOf(k) == CHOOSE i \in 1..Len(records) :
                        /\ Key(records[i]) = k
                        /\ \A j \in 1..Len(records) : Key(records[j]) = k => j <= i
        merged == {row \in table : Key(row) \notin keys}
                      \cup {records[lastOf(k)] : k \in keys}
    IN  {[table |-> merged, ok |-> TRUE], [table |-> table, ok |-> FALSE]}

\* what insert_readings may do to the table and return: lines 36-37 and
\* 59-60 return 0 without a statement; line 68 returns the number of rows
\* the statement returned
insert_readings(table, rs) ==
    LET records == Records(rs)
    IN  IF rs = <<>> \/ records = <<>>
        THEN {[table |-> table, ret |-> [kind |-> "count", n |-> 0]]}
        ELSE {[table |-> out.table,
               ret |-> IF out.ok THEN [kind |-> "count", n |-> Len(records)]
                       ELSE Raised("APIError")] : out \in Upsert(table, records)}

\* the instants of the collector's world: ticks from one o'clock of the
\* first local day on
Tk(k) == At(1, 0) + k

\* readings a caller may hand over: two of one key with different values,
\* one of the same instant with another code, one with event_time 0 and
\* one without event_time
BatchReadings ==
    {Log(Tk(0), LIQUID_DEPTH, JsonInt(1), "1"),
     Log(Tk(0), LIQUID_DEPTH, JsonStr("2"), "2"),
     Log(Tk(0), LIQUID_STATE, JsonStr("normal"), "1"),
     Log(0, LIQUID_DEPTH, JsonInt(1), "1"),
     [code |-> LIQUID_DEPTH, value |-> JsonInt(1), status |-> "1"]}

InitStore ==
    /\ readings = <<>>
    /\ call = "none"
    /\ arg = NoArg
    /\ result = NotCalled
    /\ config = DefaultConfig
    /\ build = [lstsq_raises |-> FALSE]
    /\ earlier = NoCall
    /\ NoReport
    /\ NoCollect

\* a call of insert_readings; readings holds the batch
CallInsertReadings ==
    \E rs \in SeqsUpTo(BatchReadings, MaxLen - 1) :
        \E out \in insert_readings(sensor_readings, rs) :
            /\ readings' = rs
            /\ call' = "insert_readings"
            /\ result' = [ret |-> out.ret, locals |-> [records |-> Records(rs)]]
            /\ sensor_readings' = out.table
            /\ UNCHANGED <<arg, config, build, earlier, daily_summaries, runs, collectVars>>

SpecStore == InitStore /\ [][CallInsertReadings]_vars

----------------------------------------------------------------------------
(* The device API: TuyaClient.fetch_logs (tuya_client.py).  The logs       *)
(* endpoint serves the logs with start_time <= event_time <= end_time      *)
(* newest first, at most size of them, and says whether more remain.       *)

InRange(logs, start_time, end_time) ==
    {l \in logs : start_time <= l.event_time /\ l.event_time <= end_time}

\* every list of the logs with event_time descending; the API orders logs
\* of equal event_time as it likes
RECURSIVE NewestFirst(_)
NewestFirst(logs) ==
    IF logs = {} THEN {<<>>}
    ELSE LET firsts == {l \in logs : \A q \in logs : l.event_time >= q.event_time}
         IN  UNION {{<<l>> \o s : s \in NewestFirst(logs \ {l})} : l \in firsts}

\* line 208, response = self.get(url): the answers the request may get.
\* A page of the logs in range; success = false (an expired token, a rate
\* limit); or requests.get raising (timeout, connection)
Responses(logs, start_time, end_time, size) ==
    {[kind |-> "page", success |-> TRUE,
      logs |-> SubSeq(s, 1, IF size <= Len(s) THEN size ELSE Len(s)),
      has_next |-> Len(s) > size] :
        s \in NewestFirst(InRange(logs, start_time, end_time))}
    \cup {[kind |-> "page", success |-> FALSE, logs |-> <<>>, has_next |-> FALSE],
          [kind |-> "raise", success |-> FALSE, logs |-> <<>>, has_next |-> FALSE]}

\* line 226: min(log.get("event_time", 0) for log in log_list)
OldestEventTime(log_list) ==
    CHOOSE t \in {log_list[i].event_time : i \in 1..Len(log_list)} :
        \A i \in 1..Len(log_list) : t <= log_list[i].event_time

\* (faulty variant: the next page ends at the oldest timestamp itself)
NextEndTime_Inclusive(log_list) == OldestEventTime(log_list)

\* line 227: current_end_time = oldest_event_time - 1
NextEndTime(log_list) == OldestEventTime(log_list) - 1

\* lines 191-192 and 194-206: the locals before the first request
EnterFetchLogs(start_time_ms, end_time_ms, page_size) ==
    [pc |-> "loop", start_time_ms |-> start_time_ms, end_time_ms |-> end_time_ms,
     page_size |-> page_size, current_end_time |-> end_time_ms, all_logs |-> <<>>,
     stop |-> "none"]

\* lines 193-233, one turn of the loop with the response it got; stop is
\* the break taken
FetchLogsTurn(f, response) ==
    LET got == [f EXCEPT !.all_logs = f.all_logs \o response.logs]
    IN  IF response.kind = "raise"
        THEN [f EXCEPT !.pc = "raised"]
        ELSE IF ~response.success                                   \* line 210
        THEN [f EXCEPT !.pc = "returned", !.stop = "failed"]
        ELSE IF response.logs = <<>>                                \* line 216
        THEN [f EXCEPT !.pc = "returned", !.stop = "empty"]
        ELSE IF ~response.has_next                                  \* line 222
        THEN [got EXCEPT !.pc = "returned", !.stop = "no next"]
        ELSE IF NextEndTime(response.logs) <= f.start_time_ms      \* line 229
        THEN [got EXCEPT !.pc = "returned", !.stop = "start reached",
                         !.current_end_time = NextEndTime(response.logs)]
        ELSE [got EXCEPT !.current_end_time = NextEndTime(response.logs)]

\* the logs a device may hold: two of one instant with different codes,
\* one a tick before them and one a tick after
DepthLog(k, n) == Log(Tk(k), LIQUID_DEPTH, JsonInt(n), "1")
StateLog(k) == Log(Tk(k), LIQUID_STATE, JsonStr("normal"), "1")
DeviceLogs == {DepthLog(0, 1), DepthLog(1, 2), StateLog(1), DepthLog(2, 1)}

InitFetch ==
    /\ readings = <<>>
    /\ call = "none"
    /\ arg = NoArg
    /\ result = NotCalled
    /\ config = DefaultConfig
    /\ build = [lstsq_raises |-> FALSE]
    /\ earlier = NoCall
    /\ NoReport
    /\ device_logs \in SUBSET DeviceLogs
    /\ sync_log = <<>>
    /\ collectors = [p \in 1..MaxRuns |-> NotCollecting]
    /\ fetch = NotFetching
    /\ now = Tk(2)

\* fetch_logs(start_time_ms, end_time_ms, page_size=...) is called
CallFetchLogs ==
    /\ fetch.call.pc = "none"
    /\ \E start_time_ms \in {Tk(-1), Tk(0), Tk(1)}, end_time_ms \in {Tk(1), Tk(2)},
          page_size \in 1..MaxPageSize :
            fetch' = [call |-> EnterFetchLogs(start_time_ms, end_time_ms, page_size),
                      requests |-> <<>>, response |-> None]
    /\ UNCHANGED <<readings, call, arg, result, config, build, earlier, reportVars,
                   device_logs, sync_log, collectors, now>>

\* one turn of the loop; requests keeps the end_time of every request
\* made, response the last answer
FetchPage ==
    /\ fetch.call.pc = "loop"
    /\ \E response \in Responses(device_logs, fetch.call.start_time_ms,
                                  fetch.call.current_end_time, fetch.call.page_size) :
            fetch' = [call |-> FetchLogsTurn(fetch.call, response),
                      requests |-> Append(fetch.requests, fetch.call.current_end_time),
                      response |-> response]
    /\ UNCHANGED <<readings, call, arg, result, config, build, earlier, reportVars,
                   device_logs, sync_log, collectors, now>>

NextFetch ==
    \/ CallFetchLogs
    \/ FetchPage

SpecFetch == InitFetch /\ [][NextFetch]_vars

\* every request is answered or times out (requests.get(..., timeout=30)),
\* and the loop goes on to its next turn
SpecFetchFair == SpecFetch /\ WF_vars(FetchPage)

----------------------------------------------------------------------------
(* The data collector: run_data_collection (data_collector.py), one run    *)
(* per process, runs in sequence or interleaved.  A step is one statement  *)
(* with I/O and the code up to the next one.                               *)

INITIAL_SYNC_HOURS == 168

\* None where the code tests a time for truth only (lines 58 and 62):
\* None and 0 are both falsy, and no stored event_time is 0
NoneTime == 0

\* get_last_event_time (supabase_client.py 70-86)
get_last_event_time(table) ==
    IF table = {} THEN NoneTime
    ELSE CHOOSE t \in {row.event_time : row \in table} :
             \A row \in table : row.event_time <= t

\* get_last_sync (supabase_client.py 177-194): the newest row of sync_log
\* with status "success", or None
get_last_sync(log) ==
    LET hits == {i \in 1..Len(log) : log[i].status = "success"}
    IN  IF hits = {} THEN None
        ELSE log[CHOOSE i \in hits : \A j \in hits : j <= i]

\* log_sync (supabase_client.py 155-175): a row is added to sync_log
log_sync(log, last_event_time, records_added, status) ==
    Append(log, [last_event_time |-> last_event_time, records_added |-> records_added,
                 status |-> status])

\* lines 58-69: where the fetch starts
StartTimeMs(last_event_time, last_sync, time) ==
    IF last_event_time # NoneTime
    THEN last_event_time + 1
    ELSE IF last_sync # None /\ last_sync.last_event_time # NoneTime
    THEN last_sync.last_event_time + 1
    ELSE time - INITIAL_SYNC_HOURS * TicksPerHour

\* line 92: max(log.get("event_time", 0) for log in logs)
NewestEventTime(logs) ==
    CHOOSE t \in {logs[i].event_time : i \in 1..Len(logs)} :
        \A i \in 1..Len(logs) : logs[i].event_time <= t

\* int(x) of a JSON number or string succeeds: the strings of the model
\* that are decimal numbers
IntParses(x) == x.t = "int" \/ x.v \in {"1", "2"}

\* lines 101-105: the statistics fail on a liquid_depth value int() rejects
StatisticsRaise(logs) ==
    \E i \in 1..Len(logs) : logs[i].code = LIQUID_DEPTH /\ ~IntParses(logs[i].value)

\* the logs the device comes to hold: one, and a tick later three of one
\* instant, two of them liquid_depth logs with different values
CollectorLogs == {DepthLog(0, 1), DepthLog(1, 1), DepthLog(1, 2), StateLog(1)}

Collecting(end_time_ms, last_event_time, start_time_ms) ==
    [pc |-> "fetch", end_time_ms |-> end_time_ms, last_event_time |-> last_event_time,
     fetch |-> EnterFetchLogs(start_time_ms, end_time_ms, MaxPageSize)]

\* what run_data_collection returns, with the status it logged ("none"
\* when it logged nothing)
Collected(c, success, status) ==
    [pc |-> "done", end_time_ms |-> c.end_time_ms, last_event_time |-> c.last_event_time,
     success |-> success, status |-> status]

InitCollect ==
    /\ readings = <<>>
    /\ call = "none"
    /\ arg = NoArg
    /\ result = NotCalled
    /\ config = DefaultConfig
    /\ build = [lstsq_raises |-> FALSE]
    /\ earlier = NoCall
    /\ NoReport
    /\ device_logs = {}
    /\ sync_log = <<>>
    /\ collectors = [p \in 1..MaxRuns |-> NotCollecting]
    /\ fetch = NotFetching
    /\ now = Tk(0)

\* the sensor reports a value: the device API holds a new log, stamped
\* with the time of the report
DeviceReports ==
    /\ \E l \in CollectorLogs \ device_logs :
        /\ l.event_time >= now
        /\ now' = l.event_time
        /\ device_logs' = device_logs \cup {l}
    /\ UNCHANGED <<readings, call, arg, result, config, build, earlier, reportVars,
                   sync_log, collectors, fetch>>

\* lines 132-151, the except clauses: the error is logged and the run
\* returns failure (log_sync is taken to succeed)
CollectFailed(p) ==
    /\ sync_log' = log_sync(sync_log, NoneTime, 0, "error")
    /\ collectors' = [collectors EXCEPT ![p] = Collected(@, FALSE, "error")]

\* lines 28-75: validate_config, the clients, the time, the two reads of
\* the store (which may fail), the start of the range.  The runs are
\* numbered in the order of their starts.
CollectStart(p) ==
    /\ collectors[p].pc = "idle"
    /\ p > 1 => collectors[p - 1].pc # "idle"
    /\ LET started == [pc |-> "start", end_time_ms |-> now, last_event_time |-> NoneTime]
       IN  \/ /\ collectors' = [collectors EXCEPT ![p] = Collected(started, FALSE, "none")]
              /\ UNCHANGED sync_log
           \/ /\ sync_log' = log_sync(sync_log, NoneTime, 0, "error")
              /\ collectors' = [collectors EXCEPT ![p] = Collected(started, FALSE, "error")]
           \/ LET last_sync == get_last_sync(sync_log)
                  last_event_time == get_last_event_time(sensor_readings)
              IN  /\ collectors' = [collectors EXCEPT ![p] =
                         Collecting(now, last_event_time,
                                    StartTimeMs(last_event_time, last_sync, now))]
                  /\ UNCHANGED sync_log
    /\ UNCHANGED <<readings, call, arg, result, config, build, earlier, reportVars,
                   device_logs, fetch, now>>

\* line 76, tuya.fetch_logs: one turn of its loop; the call returns to line
\* 77 or raises into the except clauses
CollectFetchPage(p) ==
    /\ collectors[p].pc = "fetch"
    /\ \E response \in Responses(device_logs, collectors[p].fetch.start_time_ms,
                                  collectors[p].fetch.current_end_time,
                                  collectors[p].fetch.page_size) :
         LET f == FetchLogsTurn(collectors[p].fetch, response)
         IN  IF f.pc = "raised"
             THEN CollectFailed(p)
             ELSE /\ collectors' = [collectors EXCEPT ![p].fetch = f,
                                       ![p].pc = IF f.pc = "returned" THEN "insert" ELSE "fetch"]
                  /\ UNCHANGED sync_log
    /\ UNCHANGED <<readings, call, arg, result, config, build, earlier, reportVars,
                   device_logs, fetch, now>>

\* lines 79-130: no logs, or insert_readings, log_sync, the statistics
CollectInsert(p) ==
    /\ collectors[p].pc = "insert"
    /\ LET logs == collectors[p].fetch.all_logs
       IN  IF logs = <<>>
           THEN /\ sync_log' = log_sync(sync_log, collectors[p].last_event_time, 0, "success")
                /\ collectors' = [collectors EXCEPT ![p] = Collected(@, TRUE, "success")]
                /\ UNCHANGED sensor_readings
           ELSE \E out \in insert_readings(sensor_readings, logs) :
                   /\ sensor_readings' = out.table
                   /\ IF out.ret.kind = "raise"
                      THEN CollectFailed(p)
                      ELSE IF StatisticsRaise(logs)
                      THEN /\ sync_log' = log_sync(log_sync(sync_log, NewestEventTime(logs),
                                                             out.ret.n, "success"),
                                                    NoneTime, 0, "error")
                           /\ collectors' = [collectors EXCEPT ![p] =
                                                Collected(@, FALSE, "error")]
                      ELSE /\ sync_log' = log_sync(sync_log, NewestEventTime(logs),
                                                    out.ret.n, "success")
                           /\ collectors' = [collectors EXCEPT ![p] =
                                                Collected(@, TRUE, "success")]
    /\ UNCHANGED <<readings, call, arg, result, config, build, earlier,
                   daily_summaries, runs, device_logs, fetch, now>>

NextCollect ==
    \/ DeviceReports
    \/ \E p \in 1..MaxRuns :
        \/ CollectStart(p)
        \/ CollectFetchPage(p)
        \/ CollectInsert(p)

SpecCollect == InitCollect /\ [][NextCollect]_vars

----------------------------------------------------------------------------
(* Properties *)

NightCall == call = "analyze_night_period"
UsageCall == call = "estimate_daily_usage"
DayCall == call = "analyze_day"

\* the call reached the reversal filter (line 70)
Scrubbed == NightCall /\ result.locals.line \in {76, 85, 94}

DepthsOf(ns) == Tuple([i \in 1..Len(ns) |-> ns[i].depth])

\* C1: the readings analyze_night_period keeps after its reversal filter are
\* in timestamp order and their depths never decrease along it; so every
\* estimate it returns (also the one analyze_day works with) has
\* end_depth >= start_depth.
C1_FilteredNonDecreasing ==
    /\ Scrubbed =>
         LET filtered == result.locals.filtered
         IN  \A i, j \in 1..Len(filtered) :
                 i < j => /\ filtered[i].time <= filtered[j].time
                          /\ filtered[i].depth <= filtered[j].depth
    /\ NightCall /\ result.ret.kind = "estimate" =>
         result.ret.end_depth >= result.ret.start_depth
    /\ DayCall /\ result.locals.night_analysis.kind = "estimate" =>
         result.locals.night_analysis.end_depth >= result.locals.night_analysis.start_depth

\* a call whose filter dropped a reversal and still returned an estimate
C1_Witness ==
    /\ Scrubbed
    /\ result.ret.kind = "estimate"
    /\ Len(result.locals.filtered) < Len(result.locals.night_readings)

\* the greedy scrub, said without the loop: K is the set of kept positions of
\* the sorted sequence s iff it holds position 1 and, for every later
\* position i, holds i exactly when s[i] is not below the reading at the
\* greatest kept position before i
IsGreedyKept(s, K) ==
    /\ 1 \in K
    /\ \A i \in 2..Len(s) :
         LET last == CHOOSE k \in K : k < i /\ \A m \in K : m < i => m <= k
         IN  i \in K <=> s[i].depth >= s[last].depth

\* C2: the reversal filter is the greedy one-pass scrub over the night
\* readings sorted by timestamp ascending: the first is kept, each later one
\* iff its depth >= the depth of the last kept one; depths
\* [10, 8, 12, 11, 15] are reduced to [10, 12, 15].
C2_GreedyScrub ==
    /\ Scrubbed =>
         LET s == result.locals.night_readings
             filtered == result.locals.filtered
         IN  /\ \A i \in 1..(Len(s) - 1) : s[i].time <= s[i + 1].time
             /\ \E K \in SUBSET (1..Len(s)) :
                    /\ IsGreedyKept(s, K)
                    /\ filtered = SelectIdx(s, K)
    /\ NightCall /\ readings = ScrubExample =>
         DepthsOf(result.locals.filtered) = <<10, 12, 15>>

\* the example's call, with 8 and 11 among the sorted night readings
C2_Witness ==
    /\ NightCall
    /\ readings = ScrubExample
    /\ DepthsOf(result.locals.night_readings) = <<10, 8, 12, 11, 15>>

\* the input readings, by position
Idx == 1..Len(readings)
IsDepth(i) == readings[i].code = "liquid_depth"
Parses(i) == readings[i].value.t = "num"
HourIn(t) == LET h == LocalHour(t) IN NIGHT_START_HOUR <= h /\ h < NIGHT_END_HOUR

NightAt(ns, t) == Cardinality({k \in 1..Len(ns) : ns[k].time = t})
NightAtDepth(ns, t, d) ==
    Cardinality({k \in 1..Len(ns) : ns[k].time = t /\ ns[k].depth = d})

\* C3 as stated: a reading is a candidate for the night fit iff its code is
\* liquid_depth and its local hour h satisfies
\* NIGHT_START_HOUR <= h < NIGHT_END_HOUR.  (Fails: a reading in the window
\* whose value int() rejects is no candidate.)
C3_Original ==
    NightCall =>
        LET ns == result.locals.night_readings
        IN  /\ Len(ns) = Cardinality({i \in Idx : IsDepth(i) /\ HourIn(readings[i].event_time)})
            /\ \A i \in Idx :
                 NightAt(ns, readings[i].event_time) =
                     Cardinality({j \in Idx : /\ IsDepth(j)
                                              /\ readings[j].event_time = readings[i].event_time
                                              /\ HourIn(readings[j].event_time)})

\* C3, amended: a reading is a candidate for the night fit iff its code is
\* liquid_depth, it has a non-zero event_time whose local hour h satisfies
\* NIGHT_START_HOUR <= h < NIGHT_END_HOUR (half-open), and its value parses
\* as an integer; it then enters with that time and that depth.
C3_NightCandidates ==
    NightCall =>
        LET ns == result.locals.night_readings
            Cand(j) == /\ IsDepth(j)
                       /\ readings[j].event_time # 0
                       /\ HourIn(readings[j].event_time)
                       /\ Parses(j)
        IN  /\ Len(ns) = Cardinality({j \in Idx : Cand(j)})
            /\ \A i \in Idx :
                 NightAtDepth(ns, readings[i].event_time, readings[i].value.v) =
                     Cardinality({j \in Idx : /\ Cand(j)
                                              /\ readings[j].event_time = readings[i].event_time
                                              /\ readings[j].value.v = readings[i].value.v})

\* a call with a candidate, and with a depth reading at hour NIGHT_END_HOUR
\* and an unparseable one inside the window, both left out
C3_Witness ==
    /\ NightCall
    /\ Len(result.locals.night_readings) = 1
    /\ \E i \in Idx : IsDepth(i) /\ LocalHour(readings[i].event_time) = NIGHT_END_HOUR
    /\ \E i \in Idx : IsDepth(i) /\ HourIn(readings[i].event_time) /\ ~Parses(i)

\* C4: analyze_night_period returns None exactly when fewer than 2 readings
\* survive the night-window selection and the reversal scrub; an estimate has
\* reading_count >= 2 (the number of survivors) and duration_hours >= 0.
C4_NoneIffFewerThanTwo ==
    NightCall =>
        LET survivors == IF result.locals.line = 64
                         THEN result.locals.night_readings
                         ELSE result.locals.filtered
        IN  /\ result.ret.kind = "None" <=> Len(survivors) < 2
            /\ result.ret.kind = "estimate" =>
                 /\ result.ret.reading_count >= 2
                 /\ result.ret.reading_count = Len(survivors)
                 /\ RGe(result.ret.duration_hours, Zero)

\* two or more candidates, of which the scrub leaves one: None at line 76
C4_Witness ==
    /\ NightCall
    /\ result.ret.kind = "None"
    /\ Len(result.locals.night_readings) >= 2
    /\ Len(result.locals.filtered) = 1

\* the day's depth readings: earliest and latest timestamp
DepthIdx == {i \in Idx : IsDepth(i)}
FirstTime == CHOOSE t \in {readings[i].event_time : i \in DepthIdx} :
                 \A i \in DepthIdx : t <= readings[i].event_time
LastTime == CHOOSE t \in {readings[i].event_time : i \in DepthIdx} :
                \A i \in DepthIdx : t >= readings[i].event_time

\* C5 as stated: estimate_daily_usage returns None exactly when the day has
\* no liquid_depth reading or the time from the earliest to the latest depth
\* reading is not strictly positive.  (Fails: it also returns None when a
\* depth value cannot be parsed.)
C5_Original ==
    UsageCall =>
        (result.ret.kind = "None" <=> (DepthIdx = {} \/ LastTime - FirstTime <= 0))

\* C5, amended: estimate_daily_usage returns None exactly when the day has no
\* liquid_depth reading, or a liquid_depth value cannot be parsed as an
\* integer, or the time from the earliest to the latest depth reading is not
\* strictly positive; otherwise an estimate with duration_hours > 0, the
\* hours between those two readings.
C5_NoneIff ==
    UsageCall =>
        /\ result.ret.kind = "None" <=>
              \/ DepthIdx = {}
              \/ \E i \in DepthIdx : ~Parses(i)
              \/ LastTime - FirstTime <= 0
        /\ result.ret.kind # "None" =>
              /\ result.ret.kind = "estimate"
              /\ RGt(result.ret.duration_hours, Zero)
              /\ result.ret.duration_hours = Rat(LastTime - FirstTime, TicksPerHour)

\* a day with depth readings over a positive time, one of them unparseable
C5_Witness ==
    /\ UsageCall
    /\ result.ret.kind = "None"
    /\ DepthIdx # {}
    /\ LastTime - FirstTime > 0

\* C6: for every estimate of estimate_daily_usage, net_change = end_depth -
\* start_depth (the depths of a latest and an earliest reading),
\* theoretical_intake = night_fill_rate * duration_hours and estimated_usage =
\* max(0, theoretical_intake - net_change), never negative; rate 1 over 10 h
\* with net change 15 gives 0, rate 5 over 24 h with net change 80 gives 40.
C6_UsageFormula ==
    /\ UsageCall /\ result.ret.kind = "estimate" =>
         LET u == result.ret
             rate == arg.night_fill_rate
             intake == RMul(rate, Rat(LastTime - FirstTime, TicksPerHour))
             diff == RSub(intake, FromInt(u.net_change))
         IN  /\ u.net_change = u.end_depth - u.start_depth
             /\ \E i \in DepthIdx : /\ readings[i].event_time = FirstTime
                                    /\ readings[i].value.v = u.start_depth
             /\ \E i \in DepthIdx : /\ readings[i].event_time = LastTime
                                    /\ readings[i].value.v = u.end_depth
             /\ u.theoretical_intake_depth = intake
             /\ u.estimated_usage_depth = (IF RGt(diff, Zero) THEN diff ELSE Zero)
             /\ ~RLt(u.estimated_usage_depth, Zero)
    /\ UsageCall /\ readings = UsageFloorExample /\ arg.night_fill_rate = One =>
         /\ result.ret.kind = "estimate"
         /\ result.ret.duration_hours = FromInt(10)
         /\ result.ret.net_change = 15
         /\ result.ret.estimated_usage_depth = Zero
    /\ UsageCall /\ readings = UsageNormalExample /\ arg.night_fill_rate = FromInt(5) =>
         /\ result.ret.kind = "estimate"
         /\ result.ret.duration_hours = FromInt(24)
         /\ result.ret.net_change = 80
         /\ result.ret.estimated_usage_depth = FromInt(40)

\* an estimate where the floor applies: intake below the net change
C6_Witness ==
    /\ UsageCall
    /\ result.ret.kind = "estimate"
    /\ RLt(result.ret.theoretical_intake_depth, FromInt(result.ret.net_change))
    /\ result.ret.estimated_usage_depth = Zero

\* analyze_day returned a summary / worked without a night estimate
Summarised == DayCall /\ result.ret.kind = "summary"
NoNightRate == Summarised /\ result.locals.night_analysis.kind = "None"

CountFieldNames == {"report_date", "readings_count", "liquid_depth_count"}
NightFieldNames ==
    {"night_start_depth", "night_end_depth", "night_duration_hours",
     "night_fill_rate_per_hour", "night_r_squared"}
UsageFieldNames ==
    {"start_depth", "end_depth", "min_depth", "max_depth", "net_change_depth",
     "estimated_intake_depth", "estimated_intake_liters", "estimated_usage_depth",
     "estimated_usage_liters"}

\* C7 as stated: when analyze_night_period returned None and analyze_day
\* substitutes rate 0, estimated_usage_depth = 0 whatever the day's depth
\* series is.  (Fails: with rate 0 a fall of the depth over the day is
\* reported as usage.)
C7_Original ==
    NoNightRate /\ result.locals.usage_analysis.kind = "estimate" =>
        result.ret.fields["estimated_usage_depth"] = Zero

\* C7, amended: when analyze_night_period returned None, analyze_day
\* substitutes rate 0, the estimated intake is 0 and the usage estimate, when
\* there is one, is the day's net fall in depth: estimated_usage_depth =
\* max(0, start_depth - end_depth), which is 0 exactly when the depth did not
\* fall between the first and the last reading.
C7_UsageWithoutNightRate ==
    NoNightRate =>
        /\ result.locals.fill_rate = Zero
        /\ result.locals.usage_analysis.kind = "estimate" =>
             LET f == result.ret.fields
                 fall == f["start_depth"] - f["end_depth"]
             IN  /\ f["estimated_intake_depth"] = Zero
                 /\ f["estimated_usage_depth"] = FromInt(IF fall > 0 THEN fall ELSE 0)
                 /\ f["estimated_usage_depth"] = Zero <=> f["end_depth"] >= f["start_depth"]

\* no night rate, and a day over which the depth fell: usage is reported
C7_Witness ==
    /\ NoNightRate
    /\ result.locals.usage_analysis.kind = "estimate"
    /\ result.ret.fields["end_depth"] < result.ret.fields["start_depth"]
    /\ RGt(result.ret.fields["estimated_usage_depth"], Zero)

\* C8: analyze_day returns a summary record for every list of readings, the
\* empty one included, and never raises; the record holds report_date,
\* readings_count (the number of input readings) and liquid_depth_count (the
\* number of liquid_depth readings, <= readings_count), both 0 for no input.
\* (Fails: when two or more scrubbed night readings all carry one timestamp,
\* np.polyfit gets a zero column and numpy.linalg.lstsq may raise.)
C8_AlwaysSummary ==
    DayCall =>
        /\ result.ret.kind = "summary"
        /\ CountFieldNames \subseteq DOMAIN result.ret.fields
        /\ result.ret.fields["report_date"] = Strftime(arg.date)
        /\ result.ret.fields["readings_count"] = Len(readings)
        /\ result.ret.fields["liquid_depth_count"] = Cardinality(DepthIdx)
        /\ result.ret.fields["liquid_depth_count"] <= result.ret.fields["readings_count"]

\* the day's depth readings span a positive time
PositiveSpan == DepthIdx # {} /\ LastTime - FirstTime > 0

\* C9 as stated: whenever the day has depth readings spanning a positive
\* duration, the summary contains the usage fields although
\* analyze_night_period returned None.  (Fails: one unparseable depth value
\* removes the usage estimate.)
C9_Original ==
    NoNightRate /\ PositiveSpan => UsageFieldNames \subseteq DOMAIN result.ret.fields

\* C9, amended: a missing night estimate does not abort the summary: whenever
\* the day has depth readings spanning a positive duration and every
\* liquid_depth value parses as an integer, the summary contains the usage
\* fields, computed with rate 0, although analyze_night_period returned None.
C9_UsageDespiteNoNight ==
    NoNightRate /\ PositiveSpan /\ (\A i \in DepthIdx : Parses(i)) =>
        /\ UsageFieldNames \subseteq DOMAIN result.ret.fields
        /\ result.ret.fields["estimated_intake_depth"] = Zero
        /\ result.ret.fields["estimated_intake_liters"] = Zero

\* such a day: no night estimate, usage fields in the summary
C9_Witness ==
    /\ NoNightRate
    /\ PositiveSpan
    /\ \A i \in DepthIdx : Parses(i)
    /\ "estimated_usage_depth" \in DOMAIN result.ret.fields

\* the depth readings inside the night window
InWindowIdx == {i \in DepthIdx : HourIn(readings[i].event_time)}

\* C10: in every summary the night fields are present iff the night estimate
\* is non-null and the usage fields iff the usage estimate is non-null (all
\* of them or none); a day whose night window holds exactly 1 reading yields
\* a summary without rate fields but with the reading counts.
C10_FieldsIffEstimates ==
    Summarised =>
        LET present == DOMAIN result.ret.fields
            night == result.locals.night_analysis.kind = "estimate"
            usage == result.locals.usage_analysis.kind = "estimate"
        IN  /\ night => NightFieldNames \subseteq present
            /\ ~night => NightFieldNames \cap present = {}
            /\ usage => UsageFieldNames \subseteq present
            /\ ~usage => UsageFieldNames \cap present = {}
            /\ CountFieldNames \subseteq present
            /\ Cardinality(InWindowIdx) = 1 =>
                 /\ NightFieldNames \cap present = {}
                 /\ result.ret.fields["readings_count"] = Len(readings)
                 /\ result.ret.fields["liquid_depth_count"] = Cardinality(DepthIdx)

\* a day with exactly one reading in the night window, and a usage estimate
C10_Witness ==
    /\ Summarised
    /\ Cardinality(InWindowIdx) = 1
    /\ result.locals.usage_analysis.kind = "estimate"

\* the depth values of the day's liquid_depth readings (all of them parse
\* when there is a usage estimate)
DayDepths == {readings[i].value.v : i \in DepthIdx}

\* C12: the usage estimate reports min_depth and max_depth over the entire
\* day's depth series, not just its endpoints: min_depth <= depth <=
\* max_depth for every depth reading of the day (both bounds attained), so
\* min_depth <= start_depth, end_depth <= max_depth; the summary carries the
\* same two values.
C12_MinMaxOverDay ==
    /\ UsageCall /\ result.ret.kind = "estimate" =>
         LET u == result.ret
         IN  /\ \A d \in DayDepths : u.min_depth <= d /\ d <= u.max_depth
             /\ u.min_depth \in DayDepths
             /\ u.max_depth \in DayDepths
             /\ u.min_depth <= u.start_depth /\ u.start_depth <= u.max_depth
             /\ u.min_depth <= u.end_depth /\ u.end_depth <= u.max_depth
    /\ Summarised /\ result.locals.usage_analysis.kind = "estimate" =>
         /\ \A d \in DayDepths : /\ result.ret.fields["min_depth"] <= d
                                 /\ d <= result.ret.fields["max_depth"]
         /\ result.ret.fields["min_depth"] = result.locals.usage_analysis.min_depth
         /\ result.ret.fields["max_depth"] = result.locals.usage_analysis.max_depth

\* a day whose lowest depth is reached strictly between its endpoints
C12_Witness ==
    /\ UsageCall
    /\ result.ret.kind = "estimate"
    /\ result.ret.min_depth < result.ret.start_depth
    /\ result.ret.min_depth < result.ret.end_depth

\* the call reached the fit (line 85) with these scrubbed readings
Fitted == NightCall /\ result.locals.line \in {85, 94}
FitDepths == {result.locals.filtered[i].depth : i \in 1..Len(result.locals.filtered)}
FitTimes == {result.locals.filtered[i].time : i \in 1..Len(result.locals.filtered)}

\* C13: when all scrubbed night readings have the same depth (SS_tot = 0),
\* analyze_night_period returns an estimate with r_squared = 0 instead of
\* failing or dividing by zero.  (Fails: when these readings also share one
\* timestamp, np.polyfit gets a zero column and numpy.linalg.lstsq may
\* raise, the fault of C8.)
C13_ZeroVarianceGivesZero ==
    Fitted /\ Cardinality(FitDepths) = 1 =>
        /\ result.ret.kind = "estimate"
        /\ result.ret.r_squared = Zero

\* C14: every rate estimate returned by analyze_night_period has fit
\* quality r_squared in the closed interval [0, 1], for every scrubbed night
\* sequence (including sequences whose readings share timestamps).  (Fails:
\* when all scrubbed readings share one timestamp and their depths differ,
\* the fit of C8's fault, where it does not raise, yields NaN coefficients
\* and r_squared = NaN.)
C14_RSquaredInUnitInterval ==
    NightCall /\ result.ret.kind = "estimate" =>
        /\ RGe(result.ret.r_squared, Zero)
        /\ RLe(result.ret.r_squared, One)

\* an estimate fitted through exactly two scrubbed readings
TwoPointFit ==
    NightCall /\ result.ret.kind = "estimate" /\ Len(result.locals.filtered) = 2

\* C15 as stated: a night fit over exactly 2 scrubbed readings reports fit
\* quality r_squared = 0, also when the two depths differ.  (Fails: the line
\* through two points at different times fits them exactly, SS_res = 0.)
C15_Original ==
    TwoPointFit => result.ret.r_squared = Zero

\* C15, amended: a night fit over exactly 2 scrubbed readings has no special
\* case: it reports r_squared = 0 exactly when the two depths are equal, and
\* when the two depths differ and the two timestamps differ it reports
\* r_squared = 1, a perfect fit (up to floating-point rounding), with the
\* rate (end_depth - start_depth) / duration_hours.
C15_TwoPointFit ==
    TwoPointFit =>
        LET e == result.ret
        IN  /\ e.r_squared = Zero <=> e.start_depth = e.end_depth
            /\ e.start_depth # e.end_depth /\ Cardinality(FitTimes) = 2 =>
                 /\ e.r_squared = One
                 /\ e.rate_per_hour = RDiv(FromInt(e.end_depth - e.start_depth), e.duration_hours)

\* two scrubbed readings at different times with different depths
C15_Witness ==
    /\ TwoPointFit
    /\ result.ret.start_depth # result.ret.end_depth
    /\ Cardinality(FitTimes) = 2
    /\ result.ret.r_squared = One

\* a summary made from a night estimate and a usage estimate
BothEstimates ==
    /\ Summarised
    /\ result.locals.night_analysis.kind = "estimate"
    /\ result.locals.usage_analysis.kind = "estimate"

\* the intake and the usage of the day, from the unrounded night rate
UnroundedIntake ==
    RMul(result.locals.night_analysis.rate_per_hour,
         result.locals.usage_analysis.duration_hours)
UnroundedUsage ==
    PyMax0(RSub(UnroundedIntake, FromInt(result.locals.usage_analysis.net_change)))

\* C18: rounding in analyze_day is presentation-only: the usage estimate is
\* computed from the unrounded night rate, and the liters fields are
\* converted from the unrounded depth quantities, so no rounded value is an
\* input to any other summary field.
C18_RoundingIsPresentationOnly ==
    BothEstimates =>
        LET f == result.ret.fields
        IN  /\ result.locals.fill_rate = result.locals.night_analysis.rate_per_hour
            /\ result.locals.usage_analysis.theoretical_intake_depth = UnroundedIntake
            /\ result.locals.usage_analysis.estimated_usage_depth = UnroundedUsage
            /\ f["estimated_intake_depth"] = Round(UnroundedIntake, 2)
            /\ f["estimated_usage_depth"] = Round(UnroundedUsage, 2)
            /\ f["estimated_intake_liters"] = Round(depth_to_liters(UnroundedIntake), 2)
            /\ f["estimated_usage_liters"] = Round(depth_to_liters(UnroundedUsage), 2)

\* a summary that would differ had a rounded value been fed on: the night
\* rate has more than 2 decimals and the intake computed from the rounded
\* rate, and the liters converted from the rounded intake, are other numbers
C18_Witness ==
    /\ BothEstimates
    /\ ~IsNaN(result.locals.night_analysis.rate_per_hour)
    /\ result.ret.fields["night_fill_rate_per_hour"] # result.locals.night_analysis.rate_per_hour
    /\ result.ret.fields["estimated_intake_depth"] #
         Round(RMul(result.ret.fields["night_fill_rate_per_hour"],
                    result.locals.usage_analysis.duration_hours), 2)
    /\ result.ret.fields["estimated_intake_liters"] #
         Round(depth_to_liters(result.ret.fields["estimated_intake_depth"]), 2)

\* x is what round(y, k) returns for some y: NaN, or a multiple of 10^-k
HasDecimals(x, k) == IsNaN(x) \/ Pow10(k) % x.d = 0

\* the night fields and the depth fields of the usage are rounded as C19 says
RatesAndHoursRounded ==
    LET f == result.ret.fields
        n == result.locals.night_analysis
        u == result.locals.usage_analysis
    IN  /\ n.kind = "estimate" =>
             /\ f["night_fill_rate_per_hour"] = Round(n.rate_per_hour, 2)
             /\ f["night_duration_hours"] = Round(n.duration_hours, 2)
             /\ f["night_r_squared"] = Round(n.r_squared, 4)
             /\ HasDecimals(f["night_fill_rate_per_hour"], 2)
             /\ HasDecimals(f["night_duration_hours"], 2)
             /\ HasDecimals(f["night_r_squared"], 4)
        /\ u.kind = "estimate" =>
             /\ f["estimated_intake_depth"] = Round(u.theoretical_intake_depth, 2)
             /\ f["estimated_usage_depth"] = Round(u.estimated_usage_depth, 2)
             /\ HasDecimals(f["estimated_intake_depth"], 2)
             /\ HasDecimals(f["estimated_usage_depth"], 2)

\* C19 as stated: rates and hours are rounded to 2 decimals, fit quality to
\* 4 decimals, and the liters fields (estimated_intake_liters,
\* estimated_usage_liters) are integers.  (Fails: the liters are rounded to
\* 2 decimals like the depths, 5 depth units are 41.67 liters.)
C19_Original ==
    Summarised =>
        /\ RatesAndHoursRounded
        /\ result.locals.usage_analysis.kind = "estimate" =>
             /\ result.ret.fields["estimated_intake_liters"].d = 1
             /\ result.ret.fields["estimated_usage_liters"].d = 1

\* C19, amended: rates and hours are rounded to 2 decimals, fit quality to 4
\* decimals, and the liters fields (estimated_intake_liters,
\* estimated_usage_liters) are the converted unrounded depths rounded to 2
\* decimals, not to integers; each displayed field is round(x, k) of its
\* unrounded value x.
C19_DisplayPrecision ==
    Summarised =>
        /\ RatesAndHoursRounded
        /\ result.locals.usage_analysis.kind = "estimate" =>
             LET f == result.ret.fields
                 u == result.locals.usage_analysis
             IN  /\ f["estimated_intake_liters"] =
                        Round(depth_to_liters(u.theoretical_intake_depth), 2)
                 /\ f["estimated_usage_liters"] =
                        Round(depth_to_liters(u.estimated_usage_depth), 2)
                 /\ HasDecimals(f["estimated_intake_liters"], 2)
                 /\ HasDecimals(f["estimated_usage_liters"], 2)

\* a summary whose liters are a number with decimals and whose fit quality
\* was cut to 4 decimals
C19_Witness ==
    /\ BothEstimates
    /\ result.ret.fields["estimated_intake_liters"].d > 1
    /\ result.ret.fields["night_r_squared"] # result.locals.night_analysis.r_squared
    /\ ~IsNaN(result.locals.night_analysis.r_squared)

C17_DepthToPercent ==
    call = "depth_to_percent" =>
        LET depth == arg.depth
            percent == result.ret
            ratio == Rat(depth.n * 100, depth.d * SENSOR_MAX_DEPTH)
        IN  /\ RGe(percent, Zero) /\ RLe(percent, FromInt(100))
            /\ SENSOR_MAX_DEPTH <= 0 => percent = Zero
            /\ SENSOR_MAX_DEPTH > 0 /\ ~IsNaN(depth) =>
                 /\ RLt(ratio, Zero) => percent = Zero
                 /\ RGt(ratio, FromInt(100)) => percent = FromInt(100)
                 /\ RGe(ratio, Zero) /\ RLe(ratio, FromInt(100)) => percent = ratio
            /\ SENSOR_MAX_DEPTH = 120 /\ depth = FromInt(150) => percent = FromInt(100)
            /\ SENSOR_MAX_DEPTH = 120 /\ depth = FromInt(-5) => percent = Zero

\* a negative depth under a negative max depth: the guard answers 0, where
\* the quotient would be positive
C17_Witness ==
    /\ call = "depth_to_percent"
    /\ SENSOR_MAX_DEPTH < 0
    /\ arg.depth = FromInt(-5)
    /\ result.ret = Zero

\* the current analyze_day call has the arguments of the earlier one
SameCallAgain ==
    /\ DayCall
    /\ earlier.kept
    /\ earlier.readings = readings
    /\ earlier.date = arg.date

SummaryRows(date) ==
    {i \in 1..Len(daily_summaries) : daily_summaries[i]["report_date"] = Strftime(date)}
SingleRunSummaries(date) ==
    {analyze_day(rs, date, build.lstsq_raises).ret : rs \in get_readings_for_date(date)}

\* no run is under way, and at least one has run for the date
RunsOverFor(date) ==
    /\ \A p \in 1..MaxRuns : runs[p].pc \in {"idle", "done"}
    /\ \E p \in 1..MaxRuns : runs[p].pc = "done" /\ runs[p].date = date

\* C20 as stated: after any sequence, including interleaved or duplicate
\* runs, of daily-report runs for the same report date over the same stored
\* readings, daily_summaries holds exactly one row for that report_date and
\* it equals the summary a single run produces.  (Fails: a run that finds no
\* readings for the date, or whose fetch or upsert fails, stores no row.)
C20_Original ==
    \A date \in Dates :
        RunsOverFor(date) =>
            /\ Cardinality(SummaryRows(date)) = 1
            /\ \A i \in SummaryRows(date) :
                   \A s \in SingleRunSummaries(date) :
                       s.kind = "summary" /\ s.fields = daily_summaries[i]

\* C20, amended: whatever daily-report runs interleave or repeat over the
\* same stored readings, daily_summaries never holds more than one row for a
\* report_date; it holds none for a date without stored readings and none
\* before a run has completed its upsert, and from then on it holds exactly
\* one, equal to the summary a single run produces.
C20_OneRowPerDate ==
    \A date \in Dates :
        /\ Cardinality(SummaryRows(date)) <= 1
        /\ \A i \in SummaryRows(date) :
               \A s \in SingleRunSummaries(date) :
                   s.kind = "summary" /\ s.fields = daily_summaries[i]
        /\ RowsForDate(sensor_readings, date) = {} => SummaryRows(date) = {}
        /\ \A p \in 1..MaxRuns :
               runs[p].stored /\ runs[p].date = date => SummaryRows(date) # {}

\* two runs for one date have both upserted a summary with usage fields,
\* and there is one row
C20_Witness ==
    \E date \in Dates :
        /\ runs[1].stored /\ runs[1].date = date /\ runs[1].pc = "done"
        /\ runs[2].stored /\ runs[2].date = date /\ runs[2].pc = "done"
        /\ Cardinality(SummaryRows(date)) = 1
        /\ \A i \in SummaryRows(date) : "estimated_usage_depth" \in DOMAIN daily_summaries[i]

----------------------------------------------------------------------------
\* Order of the input list (SpecOrder).

\* the readings of the call are those of the kept call in some order
SameReadingsReordered ==
    /\ DayCall
    /\ earlier.kept
    /\ earlier.date = arg.date
    /\ Len(earlier.readings) = Len(readings)
    /\ \A i \in 1..Len(readings) :
           Cardinality({j \in 1..Len(readings) : readings[j] = readings[i]})
               = Cardinality({j \in 1..Len(readings) : earlier.readings[j] = readings[i]})

\* no two liquid_depth readings of the list carry the same timestamp
DistinctDepthTimes ==
    \A i, j \in 1..Len(readings) :
        (i # j /\ IsDepth(i) /\ IsDepth(j))
            => readings[i].event_time # readings[j].event_time

\* C28 as stated: analyze_day's result does not depend on the order of the
\* input list: for every permutation of the same readings it returns the
\* same summary, also when several liquid_depth readings carry the same
\* timestamp.  (Fails: the sorts are stable, so readings with one timestamp
\* reach the scrub and the start/end depths in their input order.)
C28_Original ==
    SameReadingsReordered => result.ret = earlier.ret

\* C28: for every permutation of the same readings analyze_day returns the
\* same result, provided no two liquid_depth readings of the list carry the
\* same timestamp.
C28_OrderIndependent ==
    (SameReadingsReordered /\ DistinctDepthTimes) => result.ret = earlier.ret

\* a list given again in a different order, with a fitted night rate
C28_Witness ==
    /\ SameReadingsReordered
    /\ DistinctDepthTimes
    /\ earlier.readings # readings
    /\ result.ret.kind = "summary"
    /\ "night_fill_rate_per_hour" \in DOMAIN result.ret.fields

----------------------------------------------------------------------------
\* Sign of the fitted rate.

\* analyze_day came to a usage estimate computed from a night rate estimate
UsageFromNightRate ==
    /\ DayCall
    /\ result.locals.line = 262
    /\ result.locals.night_analysis.kind = "estimate"
    /\ result.locals.usage_analysis.kind = "estimate"

\* C29: the fit runs only over readings with non-decreasing timestamps and
\* non-decreasing depths, so the least-squares slope is never negative:
\* every rate estimate has rate_per_hour >= 0, and every usage estimate
\* computed from it has theoretical_intake >= 0.  (Fails: when all scrubbed
\* readings share one timestamp the fit of C8's fault, where it does not
\* raise, yields a NaN slope, and NaN >= 0 is false.)
C29_RateNeverNegative ==
    /\ (NightCall /\ result.ret.kind = "estimate") => RGe(result.ret.rate_per_hour, Zero)
    /\ UsageFromNightRate =>
           RGe(result.locals.usage_analysis.theoretical_intake_depth, Zero)

----------------------------------------------------------------------------
\* A liquid_depth value that does not parse.

Malformed == {i \in 1..Len(readings) : IsDepth(i) /\ ~Parses(i)}

\* the list without its malformed liquid_depth readings
WellFormedReadings == SelectIdx(readings, (1..Len(readings)) \ Malformed)

\* C30: a liquid_depth reading whose value cannot be parsed as an integer
\* is handled per reading by analyze_night_period (the call returns what it
\* returns for the list without that reading) but per day by
\* estimate_daily_usage (the usage estimate is None); so in the summary of
\* a day with a malformed depth value all usage fields are missing, while
\* liquid_depth_count still counts the reading and the night fields are
\* those of the list without it.
C30_MalformedDepth ==
    Malformed # {} =>
        /\ NightCall =>
               result.ret = analyze_night_period(WellFormedReadings, build.lstsq_raises).ret
        /\ UsageCall => result.ret = None
        /\ Summarised =>
               /\ DOMAIN result.ret.fields \cap UsageFieldNames = {}
               /\ result.ret.fields["liquid_depth_count"]
                      = Cardinality({i \in 1..Len(readings) : IsDepth(i)})
               /\ result.locals.usage_analysis = None
               /\ result.locals.night_analysis
                      = analyze_night_period(WellFormedReadings, build.lstsq_raises).ret
               /\ (NightFieldNames \subseteq DOMAIN result.ret.fields
                      <=> result.locals.night_analysis.kind = "estimate")

\* a day with two night readings that parse and one that does not: the
\* summary has the night fields and no usage field
C30_Witness ==
    /\ Malformed # {}
    /\ Summarised
    /\ NightFieldNames \subseteq DOMAIN result.ret.fields
    /\ "estimated_usage_depth" \notin DOMAIN result.ret.fields
    /\ result.ret.fields["liquid_depth_count"] = 3

----------------------------------------------------------------------------
\* The reading store (SpecStore).

\* the rows of the table with the key of row
SameKey(row) == {other \in sensor_readings : Key(other) = Key(row)}

\* C21: after any sequence of insert_readings calls (overlapping batches
\* included) sensor_readings holds at most one row per (event_time, code)
\* pair, and a reading with a missing or zero event_time is never stored.
C21_OneRowPerKey ==
    \A row \in sensor_readings :
        /\ SameKey(row) = {row}
        /\ row.event_time # 0

\* a batch with a reading of a key the table holds, with another value,
\* and with a reading without event_time, has been stored
C21_Witness ==
    /\ call = "insert_readings"
    /\ result.ret.kind = "count"
    /\ \E i, j \in 1..Len(readings) :
           /\ ~HasEventTime(readings[i])
           /\ HasEventTime(readings[j])
           /\ Record(readings[j]) \in sensor_readings
    /\ Cardinality(sensor_readings) = 2

----------------------------------------------------------------------------
\* fetch_logs (SpecFetch, SpecFetchFair).

\* fetch_logs has returned and every page it asked for was served
ServedAndReturned == fetch.call.pc = "returned" /\ fetch.call.stop # "failed"

Fetched == {fetch.call.all_logs[i] : i \in 1..Len(fetch.call.all_logs)}

\* C23: fetch_logs(start, end) returns all device logs whose event_time
\* lies in [start, end], each exactly once, for every page size and every
\* distribution of logs over pages served newest-first with a truthful
\* has_next flag, including logs that share an event_time across a page
\* boundary and a log at exactly start.  (Fails: the next page ends one
\* tick before the oldest log of the page, which skips a log of the same
\* event_time the page did not hold; and the loop ends once that end_time
\* is <= start_time, which skips a log at exactly start.)
C23_AllLogsOnce ==
    ServedAndReturned =>
        /\ Fetched = InRange(device_logs, fetch.call.start_time_ms, fetch.call.end_time_ms)
        /\ Cardinality(Fetched) = Len(fetch.call.all_logs)

\* the loop has taken a turn: the last answer, and the conditions on which
\* lines 210-230 leave the loop
TurnTaken == fetch.call.pc \in {"loop", "returned"} /\ fetch.requests # <<>>
PageFailedOrEmpty == ~fetch.response.success \/ fetch.response.logs = <<>>
LastPage == ~fetch.response.has_next
StartReached == fetch.call.current_end_time <= fetch.call.start_time_ms

\* C25: fetch_logs terminates (the API returning only logs with event_time
\* <= the requested end_time): the end_time of each further page request
\* is strictly smaller than that of the request before, and the loop stops
\* at the first failed or empty page, the first page without has_next, or
\* once the next end_time is <= start_time.
C25_FetchLogsTerminates ==
    /\ [](fetch.call.pc # "none" =>
             \A i, j \in 1..Len(fetch.requests) :
                 i < j => fetch.requests[j] < fetch.requests[i])
    /\ [](TurnTaken =>
             (fetch.call.pc = "returned" <=> (PageFailedOrEmpty \/ LastPage \/ StartReached)))
    /\ (fetch.call.pc = "loop" ~> fetch.call.pc \in {"returned", "raised"})

\* a call that asked for a second page and returned after it
C25_Witness ==
    /\ fetch.call.pc = "returned"
    /\ Len(fetch.requests) = 2
    /\ fetch.requests[2] < fetch.requests[1]
    /\ Len(fetch.call.all_logs) = 2

----------------------------------------------------------------------------
\* The collector runs (SpecCollect).

\* C22: readings are immutable once stored: across any sequence of
\* collector runs the value and status of a row already in sensor_readings
\* never change, also when a later batch contains a reading with the same
\* (event_time, code).  (Fails: the upsert gives the row the columns of the
\* later reading.)
C22_RowsNeverChange ==
    [][\A row \in sensor_readings : row \in sensor_readings']_vars

\* no run is under way, and one has logged success
CollectedWithSuccess ==
    /\ \A p \in 1..MaxRuns : collectors[p].pc \in {"idle", "done"}
    /\ \E p \in 1..MaxRuns : collectors[p].pc = "done" /\ collectors[p].status = "success"

\* the device logs no older than the first run's start and no newer than
\* the newest stored event_time that have no row
Gap ==
    {l \in device_logs :
        /\ l.event_time >= StartTimeMs(NoneTime, None, Tk(0))
        /\ l.event_time <= get_last_event_time(sensor_readings)
        /\ \A row \in sensor_readings : Key(row) # Key(l)}

\* C24: no collector run that logs status "success" leaves a permanent
\* gap: after any sequence of run_data_collection executions every device
\* log with event_time between the first run's start time and the newest
\* stored event_time is present in sensor_readings, also when a page
\* request fails part-way through pagination.  (Fails: fetch_logs returns
\* the pages it got before the failed one, the newest, the run stores them
\* and logs success, and every later run starts after the newest stored
\* event_time.)
C24_NoPermanentGap ==
    CollectedWithSuccess => Gap = {}

----------------------------------------------------------------------------
\* Order of the report's steps, and the email part (SpecReport).

\* the place of step in what run p has done (0 when it has not done it)
DidAt(p, step) ==
    IF \E i \in 1..Len(runs[p].did) : runs[p].did[i] = step
    THEN CHOOSE i \in 1..Len(runs[p].did) : runs[p].did[i] = step
    ELSE 0

\* run p is over, and its fetch returned an empty list
ReturnedNoReadings(p) ==
    /\ runs[p].pc = "done"
    /\ DidAt(p, "fetch") > 0
    /\ RowsForDate(sensor_readings, runs[p].date) = {}

\* C26: when the store returns no readings for the report date,
\* run_daily_report returns success = False and performs neither a summary
\* upsert nor an email send; in every run that does upsert, the upsert
\* happens after the readings fetch and the analysis, and the email is sent
\* only after the upsert has completed.
C26_StepsInOrder ==
    \A p \in 1..MaxRuns :
        /\ ReturnedNoReadings(p) =>
               /\ runs[p].ret = Failure("No readings found")
               /\ DidAt(p, "upsert") = 0
               /\ DidAt(p, "send") = 0
               /\ ~runs[p].stored
        /\ DidAt(p, "upsert") > 0 =>
               /\ 0 < DidAt(p, "fetch")
               /\ DidAt(p, "fetch") < DidAt(p, "analyze")
               /\ DidAt(p, "analyze") < DidAt(p, "upsert")
        /\ DidAt(p, "send") > 0 =>
               /\ 0 < DidAt(p, "upsert")
               /\ DidAt(p, "upsert") < DidAt(p, "send")

\* one run has ended on an empty day and another has sent its email
C26_Witness ==
    \E p, q \in 1..MaxRuns :
        /\ ReturnedNoReadings(p)
        /\ runs[q].pc = "done"
        /\ runs[q].email = "sent"
        /\ runs[q].did = <<"fetch", "analyze", "upsert", "status", "build", "send">>

\* run p is over and its email part failed in one of the two ways
EmailFailed(p) ==
    /\ runs[p].pc = "done"
    /\ runs[p].email \in {"EmailSendError", "configuration incomplete"}

\* the summary of run p is in daily_summaries
SummaryStored(p) ==
    \E i \in 1..Len(daily_summaries) :
        \A f \in DOMAIN runs[p].summary : 
            f \in DOMAIN daily_summaries[i] /\ daily_summaries[i][f] = runs[p].summary[f]

\* C27: an email failure does not fail or undo the report: when
\* send_daily_report raises EmailSendError, or the email configuration is
\* incomplete, run_daily_report still returns success = True with
\* email_sent = False and an email_error, and the summary upserted earlier
\* in the run stays stored.
C27_EmailFailureKeepsReport ==
    \A p \in 1..MaxRuns :
        EmailFailed(p) =>
            /\ runs[p].ret.success
            /\ ~runs[p].ret.email_sent
            /\ runs[p].ret.email_error # "None"
            /\ runs[p].stored
            /\ SummaryStored(p)

\* a run whose send raised EmailSendError, over, its summary stored
C27_Witness ==
    \E p \in 1..MaxRuns :
        /\ EmailFailed(p)
        /\ runs[p].email = "EmailSendError"
        /\ SummaryStored(p)
        /\ "night_fill_rate_per_hour" \in DOMAIN runs[p].summary

====
